---- MODULE Spec2Model ----
(***************************************************************************)
(* Verification model of the reroute_fukuoka challenge planner             *)
(* (apps/api/services).  The module holds several specifications over one  *)
(* set of variables, one per part of the program:                          *)
(*   SpecEdges     edge construction and the realtime patch overlay        *)
(* Times are minutes since midnight of the service day, as in the code.    *)
(***************************************************************************)
EXTENDS Integers, Sequences, FiniteSets, TLC

\* Python's None; an optional value x is the one-element tuple <<x>>.
None == << >>

\* A local binding "v = e" followed by the code F that uses v.
With(e, F(_)) == CHOOSE r \in {F(v) : v \in {e}} : TRUE

(***************************************************************************)
(* Part 0.  Stations and distances: planner_loader.py (load_stations),     *)
(* planner_utils.py (distance_km, project_to_plane).                       *)
(***************************************************************************)
\* The station catalogue.  x (east) and y (north) are the planar projection
\* in km relative to hakata_coord, radius the distance to hakata_coord in
\* km, angle the bearing degrees(atan2(x, y)) mod 360 rounded to a degree,
\* bdist the distance to the city boundary polyline in units of 100 m.
\* No two stations share an angle, and no two stations of one angular bin
\* share a bdist, so the sort and the per-bin minimum have no ties.
StationTable ==
    [ H |-> [x |-> 0,  y |-> 0,  radius |-> 0,  angle |-> 0,   bdist |-> 80],
      A |-> [x |-> 6,  y |-> 8,  radius |-> 10, angle |-> 37,  bdist |-> 10],
      B |-> [x |-> 8,  y |-> -6, radius |-> 10, angle |-> 127, bdist |-> 20],
      C |-> [x |-> -6, y |-> -8, radius |-> 10, angle |-> 217, bdist |-> 15],
      D |-> [x |-> -8, y |-> 6,  radius |-> 10, angle |-> 307, bdist |-> 5],
      E |-> [x |-> 7,  y |-> 8,  radius |-> 11, angle |-> 41,  bdist |-> 5],
      F |-> [x |-> 7,  y |-> -7, radius |-> 10, angle |-> 135, bdist |-> 10],
      G |-> [x |-> 1,  y |-> 0,  radius |-> 1,  angle |-> 90,  bdist |-> 10],
      K |-> [x |-> 0,  y |-> 5,  radius |-> 5,  angle |-> 1,   bdist |-> 50] ]

\* Integer square root (floor), for distances in whole km.
ISqrt(n) == CHOOSE r \in 0..40 : r * r <= n /\ n < (r + 1) * (r + 1)

\* haversine_km / distance_km between two stations, in whole km, from the
\* planar projection (adequate at city scale).
HaversineKm(a, b) ==
    With(<< StationTable[a], StationTable[b] >>, LAMBDA s :
        ISqrt((s[1].x - s[2].x) * (s[1].x - s[2].x)
              + (s[1].y - s[2].y) * (s[1].y - s[2].y)))

(***************************************************************************)
(* Part 1.  TripEdge construction: planner_loader.py, realtime_timetable.py*)
(***************************************************************************)
VARIABLES static_edges, patches, stop_edges

START_TIME_MINUTES == 420

\* Bounds of the edge model: how many static edges are loaded, and the
\* clock texts a CSV row or a realtime payload may carry.
MaxStaticEdges == 1

\* "HH:MM" texts as <<hours, minutes>> digit pairs; None is an empty field.
ClockTexts == {None, <<7, 0>>, <<23, 50>>, <<0, 10>>}
PatchClockTexts == {None, <<7, 10>>, <<23, 55>>, <<0, 15>>}
EdgeFrom == "A"
EdgeTo == "B"
EdgeTrips == {"T1"}

\* parse_segment_minutes: hours * 60 + minutes of a "HH:MM" text, any two
\* digit hour accepted; None for an empty or malformed field.
parse_segment_minutes(raw) ==
    IF raw = None THEN None ELSE << raw[1] * 60 + raw[2] >>

\* RealtimeTimetableManager._parse_minutes: same arithmetic for "HH:MM".
ParseMinutes(value) ==
    IF value = None THEN None ELSE << value[1] * 60 + value[2] >>

\* One TripEdge (the fields the planner reads).
TripEdge(line, trip, from, to, dep, arr) ==
    [line_id |-> line, trip_id |-> trip, from_code |-> from, to_code |-> to,
     depart |-> dep, arrive |-> arr, distance_km |-> HaversineKm(from, to)]

\* load_segment_edges, the body of the loop over one CSV row: the edges the
\* row contributes (none when a time is missing).
SegmentRowEdges(line, trip, from, to, departText, arriveText) ==
    LET depart == parse_segment_minutes(departText)
        arrive == parse_segment_minutes(arriveText)
    IN  IF depart = None \/ arrive = None THEN << >>
        ELSE LET arrive2 == IF arrive[1] <= depart[1] THEN arrive[1] + 1440
                            ELSE arrive[1]
             IN  << TripEdge(line, trip, from, to, depart[1], arrive2) >>

\* rows_to_edges.normalize_time applied to the dep and then the arr field of
\* consecutive rows; st = [prev |-> prev_minutes, roll |-> rollover].
NormalizeTime(st, raw) ==
    IF raw = None THEN [st |-> st, minutes |-> None]
    ELSE LET minutes == raw[1] * 60 + raw[2]
             roll == IF st.prev # None /\ minutes + st.roll + 600 < st.prev[1]
                     THEN st.roll + 1440 ELSE st.roll
         IN  [st |-> [prev |-> << minutes + roll >>, roll |-> roll],
              minutes |-> << minutes + roll >>]

\* rows_to_edges for a trip of two rows (from row, to row).
TimetableRowsEdges(line, trip, from, to, fromDep, fromArr, toDep, toArr) ==
    LET st0 == [prev |-> None, roll |-> 0]
        n1 == NormalizeTime(st0, fromDep)
        n2 == NormalizeTime(n1.st, fromArr)
        n3 == NormalizeTime(n2.st, toDep)
        n4 == NormalizeTime(n3.st, toArr)
        depart == n1.minutes
        arrive == n4.minutes
    IN  IF depart = None \/ arrive = None THEN << >>
        ELSE IF arrive[1] <= depart[1] THEN << >>
        ELSE << TripEdge(line, trip, from, to, depart[1], arrive[1]) >>

RECURSIVE SegmentFileEdges(_, _)
\* load_segment_edges: the loop over the rows of the segments CSV.
SegmentFileEdges(rows, i) ==
    IF i > Len(rows) THEN << >>
    ELSE SegmentRowEdges(rows[i].line, rows[i].trip, rows[i].from, rows[i].to,
                         rows[i].depart, rows[i].arrive)
         \o SegmentFileEdges(rows, i + 1)

RECURSIVE TimetableFileEdges(_, _)
\* load_timetable_edges: rows_to_edges over every trip of the timetable
\* CSV (each trip here has two stop rows, holding a departure and an
\* arrival text).
TimetableFileEdges(rows, i) ==
    IF i > Len(rows) THEN << >>
    ELSE TimetableRowsEdges(rows[i].line, rows[i].trip, rows[i].from, rows[i].to,
                            rows[i].depart, None, None, rows[i].arrive)
         \o TimetableFileEdges(rows, i + 1)

\* The CSV files read at start-up: up to MaxStaticEdges rows (trips).
CsvFiles(texts) ==
    UNION {[1..n -> [line : {"L2"}, trip : EdgeTrips, from : {EdgeFrom},
                     to : {EdgeTo}, depart : texts, arrive : texts]]
           : n \in 1..MaxStaticEdges}

\* load_data with a segments file: load_segment_edges, then
\* RealtimeTimetableManager.load_static_edges (which drops the patches).
LoadSegments ==
    /\ static_edges = << >>
    /\ \E rows \in CsvFiles(ClockTexts) :
          static_edges' = SegmentFileEdges(rows, 1)
    /\ patches' = << >>
    /\ UNCHANGED stop_edges

\* load_data with a timetable file: load_timetable_edges, then
\* load_static_edges.
LoadTimetable ==
    /\ static_edges = << >>
    /\ \E rows \in CsvFiles(ClockTexts) :
          static_edges' = TimetableFileEdges(rows, 1)
    /\ patches' = << >>
    /\ UNCHANGED stop_edges

\* refresh_realtime: the payload's segments are parsed into patches and
\* merged over the patches already held.
RefreshRealtime ==
    /\ static_edges # << >>
    /\ \E t \in EdgeTrips, f \in {EdgeFrom}, to \in {EdgeTo},
          d \in PatchClockTexts, a \in PatchClockTexts,
          status \in {"", "cancelled"} :
          /\ LET key == <<t, f, to>>
                 patch == [depart |-> ParseMinutes(d),
                           arrive |-> ParseMinutes(a), status |-> status]
             IN  patches' = [k \in DOMAIN patches \cup {key} |->
                                IF k = key THEN patch ELSE patches[k]]
    /\ UNCHANGED <<static_edges, stop_edges>>

RECURSIVE PatchedWindow(_, _, _, _)
\* get_edges_for_window: the loop over the static edges, from index i.
PatchedWindow(edges, i, start_minutes, end_minutes) ==
    IF i > Len(edges) THEN << >>
    ELSE LET edge == edges[i]
             key == <<edge.trip_id, edge.from_code, edge.to_code>>
             hasPatch == key \in DOMAIN patches
             rest == PatchedWindow(edges, i + 1, start_minutes, end_minutes)
         IN  IF edge.arrive < start_minutes \/ edge.depart > end_minutes
             THEN rest
             ELSE IF hasPatch /\ patches[key].status = "cancelled"
             THEN rest
             ELSE IF hasPatch /\ patches[key].depart # None
                              /\ patches[key].arrive # None
             THEN << [edge EXCEPT !.depart = patches[key].depart[1],
                                  !.arrive = patches[key].arrive[1]] >> \o rest
             ELSE << edge >> \o rest

\* get_edges_for_window over the whole list.
get_edges_for_window(start_minutes, end_minutes) ==
    PatchedWindow(static_edges, 1, start_minutes, end_minutes)

(***************************************************************************)
(* Part 2.  Stations, origin stops, quadrants and the boundary sequence:   *)
(* planner.py (_build_boundary_sequence, _assign_quadrants) and            *)
(* planner_loader.py (build_boundary_sequence).                            *)
(***************************************************************************)
VARIABLES stations, hakata_stops, city_boundary, boundary_sequence

BOUNDARY_BIN_COUNT == 18
\* BOUNDARY_MIN_DIST_KM = 0.3 and BOUNDARY_MAX_DIST_KM = 4.0, in 100 m.
BOUNDARY_MIN_DIST == 3
BOUNDARY_MAX_DIST == 40
\* PlannerService._inner_radius_km = 2.0
inner_radius_km == 2

\* The stops both builders keep as boundary candidates: within the distance
\* band of the boundary and outside the inner radius.
NearBoundary(code) ==
    /\ BOUNDARY_MIN_DIST <= StationTable[code].bdist
    /\ StationTable[code].bdist <= BOUNDARY_MAX_DIST
    /\ StationTable[code].radius >= inner_radius_km

\* int(angle / 360.0 * BOUNDARY_BIN_COUNT) % BOUNDARY_BIN_COUNT
BinIndex(code) ==
    ((StationTable[code].angle * BOUNDARY_BIN_COUNT) \div 360)
        % BOUNDARY_BIN_COUNT

\* planner.py candidate_by_bin: per angular bin the candidate nearest to the
\* boundary (stops projected onto the origin itself are skipped).
CandidateByBin ==
    LET cands == {c \in stations :
                    /\ NearBoundary(c)
                    /\ ~(StationTable[c].x = 0 /\ StationTable[c].y = 0)}
    IN  {c \in cands : \A d \in cands :
            BinIndex(d) = BinIndex(c)
                => StationTable[c].bdist <= StationTable[d].bdist}

RECURSIVE SortByAngle(_)
\* selected.sort() on (angle, code) pairs, returned as the list of codes.
SortByAngle(codes) ==
    IF codes = {} THEN << >>
    ELSE LET first == CHOOSE c \in codes : \A d \in codes :
                         StationTable[c].angle <= StationTable[d].angle
         IN  << first >> \o SortByAngle(codes \ {first})

RECURSIVE DropCloseAngles(_, _, _, _)
\* planner.py 668-678: drop a code whose angle is within half a bin of the
\* last kept one.
DropCloseAngles(selected, i, filtered, last_angle) ==
    IF i > Len(selected) THEN filtered
    ELSE LET angle == StationTable[selected[i]].angle
             diff == IF angle >= last_angle THEN angle - last_angle
                     ELSE last_angle - angle
         IN  IF filtered # << >> /\ 2 * BOUNDARY_BIN_COUNT * diff < 360
             THEN DropCloseAngles(selected, i + 1, filtered, last_angle)
             ELSE DropCloseAngles(selected, i + 1,
                                  Append(filtered, selected[i]), angle)

RECURSIVE DedupCodes(_, _, _)
\* The closing loop of both builders: keep the first occurrence of a code.
DedupCodes(filtered, i, sequence) ==
    IF i > Len(filtered) THEN sequence
    ELSE IF \E j \in 1..Len(sequence) : sequence[j] = filtered[i]
         THEN DedupCodes(filtered, i + 1, sequence)
         ELSE DedupCodes(filtered, i + 1, Append(sequence, filtered[i]))

\* planner.py 680-692 and planner_loader.py 286-298: wrap the list in the
\* first origin stop, then deduplicate.
CloseAndDedup(filtered) ==
    LET wrapped == IF hakata_stops # << >>
                   THEN << hakata_stops[1] >> \o filtered \o << hakata_stops[1] >>
                   ELSE filtered
    IN  DedupCodes(wrapped, 1, << >>)

\* PlannerService._build_boundary_sequence (planner.py).
BoundarySequenceOfPlanner ==
    IF ~city_boundary THEN << >>
    ELSE IF CandidateByBin = {} THEN << >>
    ELSE CloseAndDedup(DropCloseAngles(SortByAngle(CandidateByBin), 1, << >>, 0))

\* build_boundary_sequence (planner_loader.py): every candidate, no bins.
BoundarySequenceOfLoader ==
    IF ~city_boundary THEN << >>
    ELSE IF {c \in stations : NearBoundary(c)} = {} THEN << >>
    ELSE CloseAndDedup(SortByAngle({c \in stations : NearBoundary(c)}))

\* boundary_index = {code: idx for idx, code in enumerate(sequence)}
boundary_index(code) ==
    CHOOSE i \in 0..(Len(boundary_sequence) - 1) :
        boundary_sequence[i + 1] = code

\* _build_route_timetables (planner.py 899) rebuilds the sequence with
\* PlannerService._build_boundary_sequence.
BuildBoundarySequence ==
    /\ boundary_sequence' = BoundarySequenceOfPlanner
    /\ UNCHANGED <<stations, hakata_stops, city_boundary>>

\* planner_loader.build_boundary_sequence(service).
LoaderBuildBoundarySequence ==
    /\ boundary_sequence' = BoundarySequenceOfLoader
    /\ UNCHANGED <<stations, hakata_stops, city_boundary>>

(***************************************************************************)
(* Part 3.  Route timetables: planner.py (_build_route_timetables).        *)
(***************************************************************************)
VARIABLES routes

\* line_stop_edges: the stop list of every line (static asset).
LineStops ==
    [ L1 |-> << "H", "A", "B" >>,
      L2 |-> << "B", "C" >>,
      L3 |-> << "C", "D" >>,
      L4 |-> << "D", "H" >>,
      L5 |-> << "C", "H" >>,
      L6 |-> << "H", "A", "B" >>,
      L7 |-> << "C", "D", "H" >>,
      L8 |-> << "B", "A" >>,
      L9 |-> << "A", "D", "B" >>,
      L10 |-> << "B", "H" >>,
      L11 |-> << "B", "A" >>,
      LB |-> << "H", "A" >>,
      LR |-> << "A", "H" >>,
      LC |-> << "H", "B" >>,
      LD |-> << "H", "C" >>,
      LE |-> << "H", "D" >> ]

RECURSIVE SeqOfSet(_)
\* The elements of a finite set as a list in some fixed order.
SeqOfSet(S) ==
    IF S = {} THEN << >>
    ELSE With(CHOOSE y \in S : TRUE, LAMBDA x : << x >> \o SeqOfSet(S \ {x}))

RECURSIVE SortByDepart(_)
\* edge_list.sort(key=lambda e: e.depart): stable, smallest depart first.
SortByDepart(edges) ==
    IF edges = << >> THEN << >>
    ELSE With(CHOOSE i \in 1..Len(edges) :
                    /\ \A j \in 1..Len(edges) : edges[i].depart <= edges[j].depart
                    /\ \A j \in 1..(i - 1) : edges[j].depart # edges[i].depart,
              LAMBDA k :
                << edges[k] >>
                \o SortByDepart([j \in 1..(Len(edges) - 1) |->
                                    IF j < k THEN edges[j] ELSE edges[j + 1]]))

\* stops_seq: the prefix of the line's stop list along which every adjacent
\* pair is served by some edge of the route (planner.py 788-799).
StopsSeq(edges, line) ==
    LET base == LineStops[line]
        pair_set == {<<edges[i].from_code, edges[i].to_code>> :
                        i \in {j \in 1..Len(edges) : edges[j].line_id = line}}
        missing == {idx \in 1..(Len(base) - 1) :
                        <<base[idx], base[idx + 1]>> \notin pair_set}
        last == IF missing = {} THEN Len(base)
                ELSE CHOOSE idx \in missing : \A m \in missing : idx <= m
    IN  SubSeq(base, 1, last)

\* Index of a code in a stop list (stop_to_index), 0 when absent.
StopIndex(stops, code) ==
    IF \E i \in 1..Len(stops) : stops[i] = code
    THEN CHOOSE i \in 1..Len(stops) :
            /\ stops[i] = code
            /\ \A j \in (i + 1)..Len(stops) : stops[j] # code
    ELSE 0

\* One RouteTrip from the edges of a trip (planner.py 810-873), as a
\* one-element list, or the empty list when the trip is dropped.
RouteTripOf(trip_id, edge_list, stops) ==
    LET n == Len(stops)
        onPattern == \A i \in 1..Len(edge_list) :
            /\ StopIndex(stops, edge_list[i].from_code) # 0
            /\ StopIndex(stops, edge_list[i].to_code)
                  = StopIndex(stops, edge_list[i].from_code) + 1
        EdgeAt(idx) == CHOOSE i \in 1..Len(edge_list) :
            /\ StopIndex(stops, edge_list[i].from_code) = idx
            /\ \A j \in (i + 1)..Len(edge_list) :
                  StopIndex(stops, edge_list[j].from_code) # idx
        covered == \A idx \in 1..(n - 1) : \E i \in 1..Len(edge_list) :
            StopIndex(stops, edge_list[i].from_code) = idx
    IN  IF ~onPattern \/ ~covered THEN << >>
        ELSE IF \E idx \in 1..(n - 1) :
                    edge_list[EdgeAt(idx)].arrive <= edge_list[EdgeAt(idx)].depart
        THEN << >>
        ELSE << [trip_id |-> trip_id,
                 departures |-> [idx \in 1..n |->
                     IF idx < n THEN edge_list[EdgeAt(idx)].depart
                     ELSE edge_list[EdgeAt(n - 1)].arrive],
                 arrivals |-> [idx \in 1..n |->
                     IF idx = 1 THEN edge_list[EdgeAt(1)].depart
                     ELSE edge_list[EdgeAt(idx - 1)].arrive],
                 segment_distances |-> [idx \in 1..(n - 1) |->
                     edge_list[EdgeAt(idx)].distance_km]] >>

RECURSIVE TripIdsInOrder(_, _, _, _)
\* The trip ids of a line in order of first appearance (dict order of
\* trip_groups[route_key]).
TripIdsInOrder(edges, line, i, acc) ==
    IF i > Len(edges) THEN acc
    ELSE IF edges[i].line_id = line
            /\ ~(\E j \in 1..Len(acc) : acc[j] = edges[i].trip_id)
         THEN TripIdsInOrder(edges, line, i + 1, Append(acc, edges[i].trip_id))
         ELSE TripIdsInOrder(edges, line, i + 1, acc)

RECURSIVE RouteTripsOf(_, _, _, _, _)
\* route_trips: the valid trips of a line, in trip order.
RouteTripsOf(edges, line, stops, trip_ids, i) ==
    IF i > Len(trip_ids) THEN << >>
    ELSE RouteTripOf(trip_ids[i],
                     SortByDepart(SelectSeq(edges,
                        LAMBDA e : e.line_id = line /\ e.trip_id = trip_ids[i])),
                     stops)
         \o RouteTripsOf(edges, line, stops, trip_ids, i + 1)

\* _build_route_timetables: RouteData per route key (one direction per
\* line here, so the route key is the line id).
BuildRouteTimetables(edges) ==
    LET lines == {edges[i].line_id : i \in 1..Len(edges)}
        Trips(line) == RouteTripsOf(edges, line, StopsSeq(edges, line),
                                    TripIdsInOrder(edges, line, 1, << >>), 1)
        built == {line \in lines :
                    /\ line \in DOMAIN LineStops
                    /\ Len(StopsSeq(edges, line)) >= 2
                    /\ Trips(line) # << >>}
    IN  [line \in built |->
            [line_id |-> line,
             stops |-> StopsSeq(edges, line),
             trips |-> Trips(line)]]

\* routes_by_stop[stop]: the route keys whose stop list holds the stop.
routes_by_stop(stop) ==
    {rid \in DOMAIN routes :
        \E i \in 1..Len(routes[rid].stops) : routes[rid].stops[i] = stop}

\* PlannerService._refresh_stop_schedules: the edges the stop schedules (and
\* through them every planner) are built from; it ends by rebuilding the
\* route timetables and, with them, the boundary sequence.
RefreshStopSchedules ==
    /\ LET horizon_start == START_TIME_MINUTES
           horizon_end == START_TIME_MINUTES + 24 * 60
           edges == get_edges_for_window(horizon_start, horizon_end)
           fallback == SelectSeq(static_edges,
                          LAMBDA e : e.arrive >= horizon_start
                                     /\ e.depart <= horizon_end)
           used == IF edges # << >> THEN edges ELSE fallback
       IN  /\ stop_edges' = used
           /\ routes' = IF used = << >> THEN routes
                        ELSE BuildRouteTimetables(static_edges)
           /\ boundary_sequence' = IF used = << >> THEN boundary_sequence
                                   ELSE BoundarySequenceOfPlanner
    /\ UNCHANGED <<static_edges, patches>>

(***************************************************************************)
(* Part 4.  Challenge configurations and labels: planner.py (_config_*,    *)
(* _extend_label), planners/*.py (get_config), raptor.py (_extend_label).  *)
(* Two implementations live side by side: the PlannerService methods of    *)
(* planner.py ("planner") and the module functions of raptor.py with the   *)
(* planners package ("planners").                                          *)
(***************************************************************************)
MAX_LABELS_PER_STOP == 6
ALL_QUADRANTS_MASK == 15
\* min_transfer_gap of a label that never transferred (10**9).
NoTransferGap == 1000000000

\* The four configurations with no transfer minimum.
ChallengeConfigNoTransferMinimum(impl, challenge) ==
    [challenge_id |-> challenge, impl |-> impl,
     require_quadrants |-> challenge = "city-loop",
     max_rounds |-> IF challenge = "most-stops" \/ impl = "planner" THEN 5
                    ELSE 50,
     min_transfer_minutes |-> 0,
     max_stop_visits |-> CASE challenge = "longest-duration" -> << 3 >>
                           [] challenge = "longest-distance" -> << 4 >>
                           [] OTHER -> None,
     max_line_visits |-> IF challenge = "longest-duration" THEN << 2 >>
                         ELSE None,
     hakata_max_visits |-> IF challenge = "longest-duration" THEN << 3 >>
                           ELSE None,
     forbid_non_hakata_duplicates |-> FALSE]

\* _config_longest_duration / _config_most_stops / _config_city_loop /
\* _config_longest_distance of planner.py (max_rounds = min(5, 8) or
\* min(6, 10)) and get_config of planners/*.py.
ChallengeConfig(impl, challenge) ==
    LET base == [challenge_id |-> challenge, impl |-> impl,
                 require_quadrants |-> FALSE, max_rounds |-> 5,
                 min_transfer_minutes |-> 5,
                 max_stop_visits |-> None, max_line_visits |-> None,
                 hakata_max_visits |-> None,
                 forbid_non_hakata_duplicates |-> FALSE]
    IN  CASE challenge = "longest-duration" ->
               [base EXCEPT !.max_rounds = IF impl = "planner" THEN 5 ELSE 50,
                            !.max_stop_visits = << 3 >>,
                            !.max_line_visits = << 2 >>,
                            !.hakata_max_visits = << 3 >>]
          [] challenge = "most-stops" ->
               [base EXCEPT !.min_transfer_minutes = 6]
          [] challenge = "city-loop" ->
               [base EXCEPT !.require_quadrants = TRUE,
                            !.max_rounds = IF impl = "planner" THEN 6 ELSE 50]
          [] challenge = "longest-distance" ->
               [base EXCEPT !.max_rounds = IF impl = "planner" THEN 6 ELSE 50,
                            !.max_stop_visits = << 4 >>,
                            !.max_line_visits =
                                IF impl = "planner" THEN None ELSE << 2 >>]

\* dict.get(key, 0)
Get0(f, k) == IF k \in DOMAIN f THEN f[k] ELSE 0

\* f with f[k] set to v (dict assignment).
Put(f, k, v) == [x \in DOMAIN f \cup {k} |-> IF x = k THEN v ELSE f[x]]

QuadrantBits == {1, 2, 4, 8}

HasBit(mask, bit) == (mask \div bit) % 2 = 1

RECURSIVE SumOver(_, _)
\* Sum of f[x] over a finite set S.
SumOver(f, S) ==
    IF S = {} THEN 0
    ELSE With(CHOOSE y \in S : TRUE, LAMBDA x : f[x] + SumOver(f, S \ {x}))

\* a | b on quadrant masks.
BitOr(a, b) ==
    SumOver([bit \in QuadrantBits |->
                IF HasBit(a, bit) \/ HasBit(b, bit) THEN bit ELSE 0],
            QuadrantBits)

\* bin(mask).count("1")
PopCount(mask) == Cardinality({bit \in QuadrantBits : HasBit(mask, bit)})

\* _assign_quadrants of planner.py: one bit per stop, by the halves of the
\* stations' bounding box (NE 1, SE 2, SW 4, NW 8).
AssignQuadrantsPlanner(codes) ==
    With([c \in codes |-> StationTable[c]], LAMBDA at :
    With([min_x |-> CHOOSE v \in {at[c].x : c \in codes} :
                        \A c \in codes : v <= at[c].x,
          max_x |-> CHOOSE v \in {at[c].x : c \in codes} :
                        \A c \in codes : v >= at[c].x,
          min_y |-> CHOOSE v \in {at[c].y : c \in codes} :
                        \A c \in codes : v <= at[c].y,
          max_y |-> CHOOSE v \in {at[c].y : c \in codes} :
                        \A c \in codes : v >= at[c].y],
         LAMBDA box :
            [c \in codes |->
                With(<< 2 * at[c].y >= box.min_y + box.max_y,
                        2 * at[c].x >= box.min_x + box.max_x >>,
                     LAMBDA ne :
                        IF ne[1] /\ ne[2] THEN 1
                        ELSE IF ~ne[1] /\ ne[2] THEN 2
                        ELSE IF ~ne[1] /\ ~ne[2] THEN 4
                        ELSE 8)]))

\* assign_quadrants of planner_loader.py: two bits per stop relative to
\* hakata_coord (north 1 or south 4, east 2 or west 8).
AssignQuadrantsLoader(codes) ==
    [c \in codes |->
        With(StationTable[c], LAMBDA s :
            (IF s.y >= 0 THEN 1 ELSE 4) + (IF s.x >= 0 THEN 2 ELSE 8))]

\* The quadrant_map the implementation works with.
QuadrantMap(impl) ==
    IF impl = "planner" THEN AssignQuadrantsPlanner(stations)
    ELSE AssignQuadrantsLoader(stations)

\* code in hakata_stops, for the origin list hk in force.
IsHakata(hk, code) == \E i \in 1..Len(hk) : hk[i] = code

\* The base label of an origin stop (raptor.py 55-69, planner.py 1209-1223),
\* before scoring.
BaseLabel(impl, stop_code) ==
    [arrival |-> START_TIME_MINUTES, ride_minutes |-> 0, distance_km |-> 0,
     visited |-> {stop_code},
     quadrant_mask |-> Get0(QuadrantMap(impl), stop_code),
     legs |-> << >>, score |-> 0,
     stop_counts |-> Put(<< >>, stop_code, 1), line_counts |-> << >>,
     transfers |-> 0, min_transfer_gap |-> NoTransferGap]

\* _extend_label: the label reached by riding segment segment_index of the
\* trip from the base label, as a one-element list, or None.  The two
\* implementations differ in when the boarding stop is counted: raptor.py
\* counts from_code when the base label has no leg, planner.py tests the
\* leg list after the new leg was added, which is never empty.
ExtendLabel(hk, base, route, trip, segment_index, depart, arrive, config) ==
    LET from_code == route.stops[segment_index]
        to_code == route.stops[segment_index + 1]
        hasLegs == base.legs # << >>
        prev_leg == base.legs[Len(base.legs)]
        distance_inc == trip.segment_distances[segment_index]
        boarding_new_trip == \/ ~hasLegs
                             \/ prev_leg.trip_id # trip.trip_id
                             \/ prev_leg.line_id # route.line_id
        gap == depart - prev_leg.arrive
        newLeg == [line_id |-> route.line_id, trip_id |-> trip.trip_id,
                   from_code |-> from_code, to_code |-> to_code,
                   depart |-> depart, arrive |-> arrive,
                   distance_km |-> distance_inc, stop_hops |-> 1]
        legs == IF hasLegs /\ ~boarding_new_trip
                THEN [base.legs EXCEPT ![Len(base.legs)] =
                        [prev_leg EXCEPT !.to_code = to_code,
                                         !.arrive = arrive,
                                         !.distance_km = prev_leg.distance_km
                                                         + distance_inc,
                                         !.stop_hops = prev_leg.stop_hops + 1]]
                ELSE Append(base.legs, newLeg)
        counts0 == IF config.impl = "planners" /\ ~hasLegs
                   THEN Put(base.stop_counts, from_code,
                            Get0(base.stop_counts, from_code) + 1)
                   ELSE base.stop_counts
        current_visits == Get0(counts0, to_code)
        limit == IF IsHakata(hk, to_code) /\ config.hakata_max_visits # None
                 THEN config.hakata_max_visits
                 ELSE config.max_stop_visits
        line_count == Get0(base.line_counts, route.line_id) + 1
    IN  IF hasLegs /\ prev_leg.from_code = to_code
                   /\ prev_leg.to_code = from_code THEN None
        ELSE IF arrive <= depart THEN None
        ELSE IF boarding_new_trip /\ hasLegs
                /\ gap < config.min_transfer_minutes THEN None
        ELSE IF limit # None /\ current_visits >= limit[1] THEN None
        ELSE IF config.forbid_non_hakata_duplicates
                /\ ~IsHakata(hk, to_code) /\ current_visits > 0 THEN None
        ELSE IF boarding_new_trip /\ config.max_line_visits # None
                /\ line_count > config.max_line_visits[1] THEN None
        ELSE << [arrival |-> arrive,
                 ride_minutes |-> base.ride_minutes + (arrive - depart),
                 distance_km |-> base.distance_km + distance_inc,
                 visited |-> base.visited \cup {to_code},
                 quadrant_mask |->
                     BitOr(base.quadrant_mask,
                           Get0(QuadrantMap(config.impl), to_code)),
                 legs |-> legs, score |-> 0,
                 stop_counts |-> Put(counts0, to_code, current_visits + 1),
                 line_counts |-> IF boarding_new_trip
                                 THEN Put(base.line_counts, route.line_id,
                                          line_count)
                                 ELSE base.line_counts,
                 transfers |-> IF boarding_new_trip /\ hasLegs
                               THEN base.transfers + 1 ELSE base.transfers,
                 min_transfer_gap |->
                     IF boarding_new_trip /\ hasLegs
                        /\ gap < base.min_transfer_gap
                     THEN gap ELSE base.min_transfer_gap] >>

(***************************************************************************)
(* Part 5.  Label metrics: raptor.py (_label_metrics, _convex_hull,        *)
(* _polygon_area, _angle_metrics); planner.py holds the same code.         *)
(* Ratios are kept as numerator and denominator; scores are computed in    *)
(* units of 1/ScoreScale so that they stay integers.                       *)
(***************************************************************************)
ScoreScale == 60

Abs(n) == IF n < 0 THEN 0 - n ELSE n

\* The stop codes along the path of a label (path_coords).
PathCodes(label) ==
    IF label.legs # << >>
    THEN << label.legs[1].from_code >>
         \o [i \in 1..Len(label.legs) |-> label.legs[i].to_code]
    ELSE SeqOfSet(label.visited)

\* project_to_plane of a station.
PointOf(code) == With(StationTable[code], LAMBDA s : << s.x, s.y >>)

RECURSIVE SortPoints(_)
\* sorted(set(points)): lexicographic order on (x, y).
SortPoints(P) ==
    IF P = {} THEN << >>
    ELSE With(CHOOSE q \in P : \A r \in P :
                    q[1] < r[1] \/ (q[1] = r[1] /\ q[2] <= r[2]),
              LAMBDA p : << p >> \o SortPoints(P \ {p}))

Cross(o, a, b) ==
    (a[1] - o[1]) * (b[2] - o[2]) - (a[2] - o[2]) * (b[1] - o[1])

RECURSIVE PopChain(_, _)
\* while len(chain) >= 2 and cross(chain[-2], chain[-1], p) <= 0: pop
PopChain(chain, p) ==
    IF Len(chain) >= 2 /\ Cross(chain[Len(chain) - 1], chain[Len(chain)], p) <= 0
    THEN PopChain(SubSeq(chain, 1, Len(chain) - 1), p)
    ELSE chain

RECURSIVE BuildChain(_, _, _)
\* One monotone chain (lower or upper) over the points in the given order.
BuildChain(pts, i, chain) ==
    IF i > Len(pts) THEN chain
    ELSE BuildChain(pts, i + 1, Append(PopChain(chain, pts[i]), pts[i]))

Reverse(seq) == [i \in 1..Len(seq) |-> seq[Len(seq) + 1 - i]]

\* _convex_hull (Andrew's monotone chain).
ConvexHull(P) ==
    With(SortPoints(P), LAMBDA pts :
        IF Len(pts) <= 1 THEN pts
        ELSE With(<< BuildChain(pts, 1, << >>) >>
                  \o << BuildChain(Reverse(pts), 1, << >>) >>,
                  LAMBDA chains :
                    SubSeq(chains[1], 1, Len(chains[1]) - 1)
                    \o SubSeq(chains[2], 1, Len(chains[2]) - 1)))

RECURSIVE Shoelace(_, _)
\* Sum of x1 * y2 - x2 * y1 around the hull, from vertex i.
Shoelace(hull, i) ==
    IF i > Len(hull) THEN 0
    ELSE LET p == hull[i]
             q == hull[(i % Len(hull)) + 1]
         IN  p[1] * q[2] - q[1] * p[2] + Shoelace(hull, i + 1)

\* Twice _polygon_area of the path (the area is half of it).
PolygonArea2(codes) ==
    With(ConvexHull({PointOf(codes[i]) : i \in 1..Len(codes)}),
         LAMBDA hull : IF Len(hull) < 3 THEN 0 ELSE Abs(Shoelace(hull, 1)))

\* The bearings of the path points, the origin point itself left out.
PathAngles(codes) ==
    With([c \in {codes[i] : i \in 1..Len(codes)} |-> StationTable[c]],
         LAMBDA at :
            With(SelectSeq(codes, LAMBDA c : << at[c].x, at[c].y >> # << 0, 0 >>),
                 LAMBDA kept : [i \in 1..Len(kept) |-> at[kept[i]].angle]))

RECURSIVE TurnSum(_, _)
\* total_turn: sum of |((nxt - prev + 180) % 360) - 180| along the path.
TurnSum(angles, i) ==
    IF i >= Len(angles) THEN 0
    ELSE Abs(((angles[i + 1] - angles[i] + 180) % 360) - 180)
         + TurnSum(angles, i + 1)

\* span = 360 - largest gap between the sorted bearings (wrap included).
AngleSpan(angles) ==
    With({angles[i] : i \in 1..Len(angles)}, LAMBDA vals :
    With({w - v : <<v, w>> \in
                {pr \in vals \X vals :
                    /\ pr[1] < pr[2]
                    /\ ~(\E u \in vals : pr[1] < u /\ u < pr[2])}}
         \cup {(CHOOSE v \in vals : \A w \in vals : v <= w) + 360
               - (CHOOSE v \in vals : \A w \in vals : v >= w)},
         LAMBDA gaps : 360 - (CHOOSE g \in gaps : \A h \in gaps : g >= h)))

\* The boundary-sequence indices touched by the legs' end stops.
BoundaryIndices(label) ==
    {boundary_index(c) : c \in
        {x \in {label.legs[i].from_code : i \in 1..Len(label.legs)}
                \cup {label.legs[i].to_code : i \in 1..Len(label.legs)} :
            \E j \in 1..Len(boundary_sequence) : boundary_sequence[j] = x}}

\* _label_metrics.  A ratio metric m is the pair (m_num, m_den):
\* avg_radius = radius_sum / n_dist, center_ratio = center_visits / n_dist,
\* short_leg_ratio = short_legs / n_legs, boundary_ratio = boundary_hits /
\* n_boundary, boundary_progress = min(1, boundary_coverage / n_sequence);
\* hull_area = hull_area2 / 2.
LabelMetrics(label) ==
    With([n_legs |-> Len(label.legs),
          lines |-> {label.legs[i].line_id : i \in 1..Len(label.legs)},
          counts |-> label.stop_counts,
          path |-> PathCodes(label),
          radius |-> [c \in label.visited |-> StationTable[c].radius],
          bset |-> {boundary_sequence[i] : i \in 1..Len(boundary_sequence)}],
         LAMBDA l :
    With([angles |-> PathAngles(l.path),
          idxs |-> IF l.bset = {} THEN {} ELSE BoundaryIndices(label)],
         LAMBDA g :
        [unique_lines |-> Cardinality(l.lines),
         unique_stops |-> Cardinality(label.visited),
         quadrants |-> PopCount(label.quadrant_mask),
         radius_sum |-> SumOver(l.radius, label.visited),
         max_radius |-> (CHOOSE r \in {l.radius[c] : c \in label.visited} :
                            \A c \in label.visited : r >= l.radius[c]),
         n_dist |-> Cardinality(label.visited),
         center_visits |-> Cardinality({c \in label.visited :
                                l.radius[c] < inner_radius_km}),
         hull_area2 |-> PolygonArea2(l.path),
         angle_span |-> IF Len(l.path) < 2 \/ Len(g.angles) < 2 THEN 0
                        ELSE AngleSpan(g.angles),
         turn_sum |-> IF Len(l.path) < 2 \/ Len(g.angles) < 2 THEN 0
                      ELSE TurnSum(g.angles, 1),
         repeat_penalty |-> l.n_legs - Cardinality(l.lines),
         short_legs |-> Cardinality({i \in 1..l.n_legs :
                            2 * label.legs[i].distance_km < 1}),
         n_legs |-> l.n_legs,
         boundary_hits |-> Cardinality(label.visited \cap l.bset),
         n_boundary |-> Cardinality(l.bset),
         boundary_coverage |->
             IF g.idxs = {} THEN 0
             ELSE (CHOOSE i \in g.idxs : \A j \in g.idxs : i >= j)
                  - (CHOOSE i \in g.idxs : \A j \in g.idxs : i <= j),
         n_sequence |-> Len(boundary_sequence),
         stop_repeat_total |->
             SumOver([c \in DOMAIN l.counts |->
                        IF l.counts[c] > 1 THEN l.counts[c] - 1 ELSE 0],
                     DOMAIN l.counts),
         stop_repeat_max |->
             (CHOOSE v \in {l.counts[c] : c \in DOMAIN l.counts} :
                 \A c \in DOMAIN l.counts : v >= l.counts[c])]))

\* ScoreScale times a ratio metric (0 when the denominator is 0, as in the
\* code).  Exact for denominators up to 6.
Scaled(num, den) == IF den = 0 THEN 0 ELSE (ScoreScale * num) \div den

AvgRadiusScaled(m) == Scaled(m.radius_sum, m.n_dist)
CenterRatioScaled(m) == Scaled(m.center_visits, m.n_dist)
BoundaryRatioScaled(m) == Scaled(m.boundary_hits, m.n_boundary)
BoundaryProgressScaled(m) ==
    IF m.n_sequence = 0 THEN 0
    ELSE IF m.boundary_coverage >= m.n_sequence THEN ScoreScale
    ELSE Scaled(m.boundary_coverage, m.n_sequence)

(***************************************************************************)
(* Part 6.  Scoring, dominance and acceptance of the four challenges:      *)
(* the _config_ methods of planner.py and get_config of the planners       *)
(* package.                                                                *)
(***************************************************************************)

\* scoring_fn raises KeyError: planners/city_loop.py reads
\* metrics["max_radius_per_quadrant"] once four quadrants are covered and
\* planners/longest_distance.py reads metrics["avg_leg_distance"], keys that
\* _label_metrics never sets.
ScoringRaises(config, m) ==
    /\ config.impl = "planners"
    /\ \/ config.challenge_id = "longest-distance"
       \/ config.challenge_id = "city-loop" /\ m.quadrants >= 4

\* The visit-cap test at the head of the longest-duration scoring_fn.
OverVisitCap(hk, label, config) ==
    \E c \in DOMAIN label.stop_counts :
        LET limit == IF IsHakata(hk, c) /\ config.hakata_max_visits # None
                     THEN config.hakata_max_visits
                     ELSE config.max_stop_visits
        IN  limit # None /\ limit[1] # 0 /\ label.stop_counts[c] > limit[1]

\* scoring_fn(label, metrics), times ScoreScale.
ScoringFn(config, hk, label, m) ==
    CASE config.challenge_id = "longest-duration" ->
            IF OverVisitCap(hk, label, config) THEN 0 - ScoreScale
            ELSE ScoreScale * (label.ride_minutes * 10000
                               + m.unique_lines * 600
                               + m.quadrants * 1800
                               - m.repeat_penalty * 500
                               - m.stop_repeat_total * 900
                               - label.transfers * 800)
                 + AvgRadiusScaled(m) * 160
                 + BoundaryRatioScaled(m) * 2200
                 - CenterRatioScaled(m) * 4000
                 - Scaled(m.short_legs, m.n_legs) * 3000
      [] config.challenge_id = "most-stops" ->
            ScoreScale * (m.unique_stops * 12000
                          + m.quadrants * 1200
                          + label.distance_km * 40
                          - m.repeat_penalty * 600
                          - m.stop_repeat_total * 1600
                          - label.transfers * 1000)
            + AvgRadiusScaled(m) * 180
            + BoundaryRatioScaled(m) * 2500
            - CenterRatioScaled(m) * 2500
      [] config.challenge_id = "city-loop" ->
            IF m.quadrants < 4
            THEN ScoreScale * (m.quadrants * 1200 - m.stop_repeat_total * 1200)
                 + AvgRadiusScaled(m) * 80
                 + BoundaryRatioScaled(m) * 1800
            ELSE ScoreScale * (m.angle_span * 35
                               + m.turn_sum * 25
                               + label.distance_km * 25
                               - m.repeat_penalty * 500
                               - m.stop_repeat_total * 1500
                               - label.transfers * 900)
                 + (ScoreScale \div 2) * m.hull_area2 * 120
                 + AvgRadiusScaled(m) * 220
                 + BoundaryRatioScaled(m) * 8000
                 + BoundaryProgressScaled(m) * 6000
                 - CenterRatioScaled(m) * 4500
      [] config.challenge_id = "longest-distance" ->
            ScoreScale * (label.distance_km * 12500
                          + m.quadrants * 1500
                          - m.repeat_penalty * 700
                          - m.stop_repeat_total * 900
                          - label.transfers * 900)
            + (ScoreScale \div 2) * m.hull_area2 * 60
            + AvgRadiusScaled(m) * 220
            + BoundaryRatioScaled(m) * 2500
            - CenterRatioScaled(m) * 3200
      [] config.challenge_id = "p2p" ->
            ScoreScale * (0 - label.arrival)

\* dominance_fn of the longest-duration configuration.
DominanceLongestDuration(a, ma, b, mb) ==
    IF /\ a.ride_minutes >= b.ride_minutes
       /\ ma.unique_lines >= mb.unique_lines
       /\ a.arrival <= b.arrival
    THEN a.score >= b.score
    ELSE FALSE

\* A most-stops dominance that asks for a strictly better score.
DominanceMostStopsStrict(a, ma, b, mb) ==
    IF /\ ma.unique_stops >= mb.unique_stops
       /\ a.arrival <= b.arrival
    THEN a.score > b.score
    ELSE FALSE

\* dominance_fn of the most-stops configuration.
DominanceMostStops(a, ma, b, mb) ==
    IF /\ ma.unique_stops >= mb.unique_stops
       /\ a.arrival <= b.arrival
    THEN a.score >= b.score
    ELSE FALSE

\* dominance_fn of the city-loop configuration.
DominanceCityLoop(a, ma, b, mb) ==
    IF /\ ma.quadrants >= mb.quadrants
       /\ ma.boundary_hits * mb.n_boundary >= mb.boundary_hits * ma.n_boundary
       /\ ma.hull_area2 >= mb.hull_area2
       /\ a.arrival <= b.arrival
    THEN a.score >= b.score
    ELSE FALSE

\* dominance_fn of the longest-distance configuration.
DominanceLongestDistance(a, ma, b, mb) ==
    IF /\ a.distance_km >= b.distance_km
       /\ ma.radius_sum * mb.n_dist >= mb.radius_sum * ma.n_dist
       /\ ma.boundary_hits * mb.n_boundary >= mb.boundary_hits * ma.n_boundary
       /\ a.arrival <= b.arrival
    THEN a.score >= b.score
    ELSE FALSE

\* config.dominance_fn(a, metrics_a, b, metrics_b)
DominanceFn(config, a, ma, b, mb) ==
    CASE config.challenge_id = "longest-duration" ->
            DominanceLongestDuration(a, ma, b, mb)
      [] config.challenge_id = "most-stops" -> DominanceMostStops(a, ma, b, mb)
      [] config.challenge_id = "city-loop" -> DominanceCityLoop(a, ma, b, mb)
      [] config.challenge_id = "longest-distance" ->
            DominanceLongestDistance(a, ma, b, mb)
      [] config.challenge_id = "p2p" -> a.arrival <= b.arrival

\* accept_fn of the city-loop configuration: quadrants == 4, hull_area >=
\* 25, avg_radius >= 3, angle_span >= 180, boundary_ratio >= 0.3.
AcceptCityLoop(label, m) ==
    /\ m.quadrants = 4
    /\ m.hull_area2 >= 50
    /\ m.radius_sum >= 3 * m.n_dist
    /\ m.angle_span >= 180
    /\ m.n_boundary > 0
    /\ 10 * m.boundary_hits >= 3 * m.n_boundary

\* config.accept_fn(label, metrics)
AcceptFn(config, label, m) ==
    CASE config.challenge_id = "city-loop" -> AcceptCityLoop(label, m)
      [] config.challenge_id = "p2p" ->
            /\ label.visited # {}
            /\ label.legs[Len(label.legs)].to_code = config.target
      [] OTHER -> TRUE

(***************************************************************************)
(* Part 7.  The RAPTOR challenge router: raptor.py (run_raptor_challenge,  *)
(* _insert_label) and planner.py (_run_raptor_challenge, _insert_label).   *)
(* The metrics cache is left out: it only memoises _label_metrics.         *)
(***************************************************************************)

\* impl, challenge: which implementation serves the request and for which
\* challenge.  raptor: the locals of one run_raptor_challenge call.
\* first_run: the result of an earlier run on the same timetable.
VARIABLES impl, challenge, raptor, first_run

RECURSIVE SortByScore(_)
\* bucket.sort(key=score, reverse=True): stable, highest score first.
SortByScore(labels) ==
    IF labels = << >> THEN << >>
    ELSE With(CHOOSE i \in 1..Len(labels) :
                    /\ \A j \in 1..Len(labels) : labels[i].score >= labels[j].score
                    /\ \A j \in 1..(i - 1) : labels[j].score # labels[i].score,
              LAMBDA k :
                << labels[k] >>
                \o SortByScore([j \in 1..(Len(labels) - 1) |->
                                   IF j < k THEN labels[j] ELSE labels[j + 1]]))

\* _insert_label without the final del bucket[MAX_LABELS_PER_STOP:].
InsertLabelWithoutTruncation(bucket, label, m, config) ==
    IF \E i \in 1..Len(bucket) :
            DominanceFn(config, bucket[i], LabelMetrics(bucket[i]), label, m)
    THEN [bucket |-> bucket, inserted |-> FALSE]
    ELSE [bucket |-> SortByScore(Append(
                SelectSeq(bucket, LAMBDA lbl :
                    ~DominanceFn(config, label, m, lbl, LabelMetrics(lbl))),
                label)),
          inserted |-> TRUE]

\* _insert_label: the bucket afterwards and whether the label went in.
InsertLabel(bucket, label, m, config) ==
    IF \E i \in 1..Len(bucket) :
            DominanceFn(config, bucket[i], LabelMetrics(bucket[i]), label, m)
    THEN [bucket |-> bucket, inserted |-> FALSE]
    ELSE With(SortByScore(Append(
                SelectSeq(bucket, LAMBDA lbl :
                    ~DominanceFn(config, label, m, lbl, LabelMetrics(lbl))),
                label)),
              LAMBDA sorted :
                [bucket |-> IF Len(sorted) > MAX_LABELS_PER_STOP
                            THEN SubSeq(sorted, 1, MAX_LABELS_PER_STOP)
                            ELSE sorted,
                 inserted |-> TRUE])

\* A router that records every label back at an origin stop after two
\* hours, whatever its quadrants.
IsFinalSolutionAnyQuadrants(hk, config, to_stop, label, m) ==
    /\ IsHakata(hk, to_stop)
    /\ label.arrival >= START_TIME_MINUTES + 120

\* raptor.py 156-165, planner.py 1292-1301: the label is a final solution.
IsFinalSolution(hk, config, to_stop, label, m) ==
    /\ IsHakata(hk, to_stop)
    /\ label.arrival >= START_TIME_MINUTES + 120
    /\ (~config.require_quadrants \/ label.quadrant_mask = ALL_QUADRANTS_MASK)
    /\ AcceptFn(config, label, m)

\* rounds[k].get(stop, [])
BucketAt(buckets, stop) ==
    IF stop \in DOMAIN buckets THEN buckets[stop] ELSE << >>

RECURSIVE SegmentLoop(_, _, _, _, _, _, _, _, _)
\* The loop "for seg_idx in range(from_idx, len(route.stops) - 1)" for one
\* label at one boarding index (raptor.py 108-169, planner.py 1255-1304).
\* rs holds rounds[round_idx + 1] (next), next_marked, best_labels and the
\* raised flag.
SegmentLoop(rs, hk, config, route, trip, label, seg_idx, boarded, onboard) ==
    IF rs.raised \/ seg_idx > Len(route.stops) - 1 THEN rs
    ELSE IF ~boarded /\ trip.departures[seg_idx]
                            < label.arrival + config.min_transfer_minutes
    THEN SegmentLoop(rs, hk, config, route, trip, label, seg_idx + 1,
                     boarded, onboard)
    ELSE
    With(ExtendLabel(hk, IF boarded THEN onboard ELSE label, route, trip,
                     seg_idx, trip.departures[seg_idx],
                     trip.arrivals[seg_idx + 1], config),
         LAMBDA ext :
    IF ext = None
    THEN IF boarded THEN rs
         ELSE SegmentLoop(rs, hk, config, route, trip, label, seg_idx + 1,
                          boarded, onboard)
    ELSE IF ext[1].arrival > START_TIME_MINUTES + 24 * 60 THEN rs
    ELSE
    With(LabelMetrics(ext[1]), LAMBDA m :
    IF ScoringRaises(config, m) THEN [rs EXCEPT !.raised = TRUE]
    ELSE
    With([ext[1] EXCEPT !.score = ScoringFn(config, hk, ext[1], m)],
         LAMBDA new_label :
    With(route.stops[seg_idx + 1], LAMBDA to_stop :
    With(InsertLabel(BucketAt(rs.next, to_stop), new_label, m, config),
         LAMBDA ins :
    With([rs EXCEPT
            !.next = Put(rs.next, to_stop, ins.bucket),
            !.next_marked = IF ins.inserted THEN @ \cup {to_stop} ELSE @,
            !.best_labels =
                IF /\ IsFinalSolution(hk, config, to_stop, new_label, m)
                   /\ (ins.inserted \/ config.impl = "planner")
                THEN Append(@, new_label) ELSE @],
         LAMBDA inserted :
    IF config.impl = "planner" \/ ins.inserted
    THEN SegmentLoop(inserted, hk, config, route, trip, label, seg_idx + 1,
                     TRUE, new_label)
    ELSE IF boarded THEN inserted
    ELSE SegmentLoop(inserted, hk, config, route, trip, label, seg_idx + 1,
                     boarded, onboard)))))))

RECURSIVE LabelLoop(_, _, _, _, _, _, _, _)
\* "for label in rounds[round_idx][stop_code]", from position i.
LabelLoop(rs, hk, config, route, trip, from_idx, labels, i) ==
    IF rs.raised \/ i > Len(labels) THEN rs
    ELSE LabelLoop(SegmentLoop(rs, hk, config, route, trip, labels[i],
                               from_idx, FALSE, labels[i]),
                   hk, config, route, trip, from_idx, labels, i + 1)

RECURSIVE StopLoop(_, _, _, _, _, _)
\* "for from_idx, stop_code in enumerate(route.stops[:-1])".  planner.py
\* skips a stop that is not marked; raptor.py one that has no bucket.
StopLoop(rs, hk, config, route, trip, from_idx) ==
    IF rs.raised \/ from_idx > Len(route.stops) - 1 THEN rs
    ELSE LET stop_code == route.stops[from_idx]
             skip == config.impl = "planner" /\ stop_code \notin rs.marked_stops
         IN  StopLoop(LabelLoop(rs, hk, config, route, trip, from_idx,
                                IF skip THEN << >>
                                ELSE BucketAt(rs.cur, stop_code), 1),
                      hk, config, route, trip, from_idx + 1)

RECURSIVE TripLoop(_, _, _, _, _)
\* "for trip in route.trips", from position k.
TripLoop(rs, hk, config, route, k) ==
    IF rs.raised \/ k > Len(route.trips) THEN rs
    ELSE TripLoop(StopLoop(rs, hk, config, route, route.trips[k], 1),
                  hk, config, route, k + 1)

\* The end of run_raptor_challenge: no accepted label gives None, else the
\* legs of the best-scored accepted label (first of the stable sort).
RaptorFinish(rs, config) ==
    [rs EXCEPT !.status = "done", !.to_scan = {},
               !.plan = IF rs.best_labels = << >> THEN None
                        ELSE << [challenge_id |-> config.challenge_id,
                                 legs |-> SortByScore(rs.best_labels)[1].legs] >>]

RECURSIVE RaptorEnterRound(_, _)
\* The head of "for round_idx in range(config.max_rounds)": leave the loop
\* when the rounds are used up or nothing is marked, else collect
\* routes_to_scan from the marked stops.
RaptorEnterRound(rs, config) ==
    IF rs.round_idx >= config.max_rounds \/ rs.marked_stops = {}
    THEN RaptorFinish(rs, config)
    ELSE LET scan == UNION {routes_by_stop(stop) : stop \in rs.marked_stops}
         IN  IF scan # {} THEN [rs EXCEPT !.status = "scan", !.to_scan = scan]
             ELSE RaptorEnterRound(
                    [rs EXCEPT !.round_idx = @ + 1, !.cur = rs.next,
                               !.next = << >>, !.marked_stops = rs.next_marked,
                               !.next_marked = {}], config)

\* run_raptor_challenge up to the first route scan: the base labels of the
\* origin stops are scored and put into round 0.
RaptorStart(hk, config) ==
    LET origin == {hk[i] : i \in 1..Len(hk)}
        rs0 == [status |-> "done", round_idx |-> 0, cur |-> << >>,
                next |-> << >>, marked_stops |-> {}, next_marked |-> {},
                to_scan |-> {}, best_labels |-> << >>, raised |-> FALSE,
                plan |-> None]
    IN  IF DOMAIN routes = {} THEN rs0
        ELSE
        With([stop \in origin |-> BaseLabel(config.impl, stop)], LAMBDA base :
        With([stop \in origin |-> LabelMetrics(base[stop])], LAMBDA m :
            IF \E stop \in origin : ScoringRaises(config, m[stop])
            THEN [rs0 EXCEPT !.status = "error", !.raised = TRUE]
            ELSE RaptorEnterRound(
                    [rs0 EXCEPT
                        !.cur = [stop \in origin |->
                                    << [base[stop] EXCEPT !.score =
                                          ScoringFn(config, hk, base[stop],
                                                    m[stop])] >>],
                        !.marked_stops = origin], config)))

\* One iteration of "for route_id in routes_to_scan" together with the
\* loop bookkeeping that follows it: after the last route of a round,
\* marked_stops = next_marked and the next round (or the end) is entered.
RaptorScanRoute(rs, hk, config, route_id) ==
    With(TripLoop(rs, hk, config, routes[route_id], 1), LAMBDA scanned :
        IF scanned.raised
        THEN [scanned EXCEPT !.status = "error", !.to_scan = {}]
        ELSE IF rs.to_scan \ {route_id} # {}
        THEN [scanned EXCEPT !.to_scan = rs.to_scan \ {route_id}]
        ELSE RaptorEnterRound(
                [scanned EXCEPT !.round_idx = @ + 1, !.cur = scanned.next,
                                !.next = << >>,
                                !.marked_stops = scanned.next_marked,
                                !.next_marked = {}, !.to_scan = {}], config))

RECURSIVE RaptorRunFrom(_, _, _)
\* run_raptor_challenge to its end, the routes of each round scanned in a
\* fixed order.
RaptorRunFrom(rs, hk, config) ==
    IF rs.status # "scan" THEN rs
    ELSE RaptorRunFrom(
            RaptorScanRoute(rs, hk, config, CHOOSE r \in rs.to_scan : TRUE),
            hk, config)

run_raptor_challenge(hk, config) == RaptorRunFrom(RaptorStart(hk, config), hk, config)

(***************************************************************************)
(* Part 8.  Beam search: planner.py (_run_search, _next_edges,             *)
(* _score_state, collapse_edges).  The planners package reaches the same   *)
(* search through planner.run_beam_search.                                 *)
(***************************************************************************)
\* beam: the locals of one _run_search call together with its keyword
\* arguments (params).
VARIABLES beam

MAX_QUEUE_SIZE == 2000
MAX_EXPANSIONS == 120000
MAX_BRANCH_PER_EXPANSION == 6

\* "value or default" for an optional positive integer.
OrElse(opt, default) == IF opt = None \/ opt[1] = 0 THEN default ELSE opt[1]

\* The keyword arguments of one _run_search call, in the order of the
\* signature.
SearchParams(kw) ==
    [score_key |-> kw[1], require_unique |-> kw[2],
     require_quadrants |-> kw[3], max_queue |-> kw[4],
     max_expansions |-> kw[5], max_branch |-> kw[6],
     max_stop_visits |-> kw[7], max_line_visits |-> kw[8],
     min_transfer_minutes |-> kw[9], transfer_penalty_minutes |-> kw[10],
     hakata_max_visits |-> kw[11], stop_repeat_penalty_weight |-> kw[12]]

\* _next_edges: the edges leaving the stop at or after earliest_depart, in
\* the order of the finalized stop schedule.
next_edges(stop_code, earliest_depart) ==
    SelectSeq(SortByDepart(SelectSeq(stop_edges,
                                     LAMBDA e : e.from_code = stop_code)),
              LAMBDA e : e.depart >= earliest_depart)

\* _score_state
score_state(state, key, transfer_penalty_minutes, stop_repeat_penalty_weight) ==
    LET n == Len(state.path)
        unique_lines == Cardinality({state.path[i].line_id : i \in 1..n})
        repeat_penalty == n - unique_lines
        transfer_penalty_total == state.transfers * transfer_penalty_minutes
        counts == state.stop_visit_counts
        stop_repeat == SumOver([c \in DOMAIN counts |->
                                  IF counts[c] > 1 THEN counts[c] - 1 ELSE 0],
                               DOMAIN counts)
        stop_repeat_penalty == stop_repeat * stop_repeat_penalty_weight
    IN  CASE key = "loop" ->
                PopCount(state.quadrant_mask) * 2000 + state.ride_minutes
                + unique_lines * 15 - repeat_penalty * 4
                - transfer_penalty_total - stop_repeat_penalty
          [] key = "unique" ->
                state.unique_count * 1200 + state.ride_minutes
                + unique_lines * 12 - repeat_penalty * 6
                - transfer_penalty_total - stop_repeat_penalty
          [] OTHER ->
                state.ride_minutes + unique_lines * 10 - repeat_penalty * 8
                - transfer_penalty_total - stop_repeat_penalty

\* push(state, priority): heappush, or heappushpop on a full queue, which
\* removes the entry with the smallest (priority, counter).
HeapMin(pq) ==
    CHOOSE x \in pq : \A y \in pq :
        \/ x = y
        \/ x.priority < y.priority
        \/ (x.priority = y.priority /\ x.counter < y.counter)

Push(bs, state, priority) ==
    LET entry == [priority |-> priority, counter |-> bs.counter + 1,
                  state |-> state]
        queue_limit == OrElse(bs.params.max_queue, MAX_QUEUE_SIZE)
        all == bs.pq \cup {entry}
    IN  [bs EXCEPT !.counter = @ + 1,
                   !.pq = IF Cardinality(bs.pq) >= queue_limit
                          THEN all \ {HeapMin(all)} ELSE all]

\* A search that lets every edge through the unique-stop test.
RevisitNeverBlocked(P, hk, state, edge) == FALSE

\* planner.py 2101-2103: with require_unique an edge to a stop the path has
\* already visited is dropped, unless it returns to an origin stop after
\* at least one ride.
RevisitBlocked(P, hk, state, edge) ==
    /\ P.require_unique
    /\ edge.to_code \in DOMAIN state.stop_visit_counts
    /\ ~(IsHakata(hk, edge.to_code) /\ state.path # << >>)

RECURSIVE EdgeLoop(_, _, _, _, _, _, _)
\* "for edge in next_edges" of one expansion, from position i
\* (planner.py 2094-2171).
EdgeLoop(bs, q, hk, state, edges, i, branch_count) ==
    IF i > Len(edges) THEN bs
    ELSE
    LET P == bs.params
        edge == edges[i]
        time_limit == START_TIME_MINUTES + 24 * 60
        branch_limit == OrElse(P.max_branch, MAX_BRANCH_PER_EXPANSION)
        stop_limit == IF P.max_stop_visits # None /\ P.max_stop_visits[1] > 0
                      THEN P.max_stop_visits ELSE None
        line_limit == IF P.max_line_visits # None /\ P.max_line_visits[1] > 0
                      THEN P.max_line_visits ELSE None
        to_hakata == IsHakata(hk, edge.to_code)
        limit == IF to_hakata /\ P.hakata_max_visits # None
                    /\ P.hakata_max_visits[1] # 0
                 THEN P.hakata_max_visits[1] ELSE stop_limit[1]
        current_stop_visits == Get0(state.stop_visit_counts, edge.to_code)
        hasPath == state.path # << >>
        prev_edge == state.path[Len(state.path)]
        boarding_new_trip == ~hasPath \/ edge.trip_id # prev_edge.trip_id
        is_transfer == boarding_new_trip /\ hasPath
        new_mask == BitOr(state.quadrant_mask, Get0(q, edge.to_code))
        ride == IF edge.arrive > edge.depart THEN edge.arrive - edge.depart
                ELSE 0
        next_state ==
            [priority |-> 0,
             ride_minutes |-> state.ride_minutes + ride,
             current_time |-> edge.arrive,
             stop_code |-> edge.to_code,
             path |-> Append(state.path, edge),
             unique_count |-> IF P.require_unique THEN state.unique_count + 1
                              ELSE state.unique_count,
             quadrant_mask |-> new_mask,
             stop_visit_counts |-> Put(state.stop_visit_counts, edge.to_code,
                                       current_stop_visits + 1),
             line_visit_counts |->
                 IF boarding_new_trip
                 THEN Put(state.line_visit_counts, edge.line_id,
                          Get0(state.line_visit_counts, edge.line_id) + 1)
                 ELSE state.line_visit_counts,
             transfers |-> state.transfers + (IF is_transfer THEN 1 ELSE 0)]
        score == score_state(next_state, P.score_key,
                             P.transfer_penalty_minutes,
                             P.stop_repeat_penalty_weight)
        key == << edge.to_code, edge.arrive \div 30 >>
        best == IF key \in DOMAIN bs.best_key_score
                THEN bs.best_key_score[key] ELSE 0 - 1
        skip == EdgeLoop(bs, q, hk, state, edges, i + 1, branch_count + 1)
    IN  IF edge.arrive > time_limit
        THEN EdgeLoop(bs, q, hk, state, edges, i + 1, branch_count)
        ELSE IF branch_count + 1 > branch_limit THEN bs
        ELSE IF RevisitBlocked(P, hk, state, edge) THEN skip
        ELSE IF stop_limit # None /\ current_stop_visits >= limit THEN skip
        ELSE IF /\ line_limit # None /\ boarding_new_trip
                /\ Get0(state.line_visit_counts, edge.line_id) >= line_limit[1]
             THEN skip
        ELSE IF P.require_quadrants /\ new_mask = state.quadrant_mask
                /\ ~hasPath THEN skip
        ELSE IF score <= best THEN skip
        ELSE EdgeLoop(Push([bs EXCEPT !.best_key_score =
                                        Put(bs.best_key_score, key, score)],
                           next_state, 0 - score),
                      q, hk, state, edges, i + 1, branch_count + 1)

RECURSIVE BestResult(_, _, _, _)
\* scores.sort(key=score, reverse=True)[0]: the first of the results with
\* the highest score.
BestResult(results, P, i, best) ==
    IF i > Len(results) THEN best
    ELSE LET Score(st) == score_state(st, P.score_key,
                                      P.transfer_penalty_minutes,
                                      P.stop_repeat_penalty_weight)
         IN  BestResult(results, P, i + 1,
                        IF Score(results[i]) > Score(best) THEN results[i]
                        ELSE best)

\* After the while loop of _run_search.
BeamFinish(bs) ==
    [bs EXCEPT !.status = "done",
               !.result = IF bs.results = << >> THEN None
                          ELSE << BestResult(bs.results, bs.params, 2,
                                             bs.results[1]) >>]

\* The test of "while pq and expansions < expansion_limit".
BeamSettle(bs) ==
    IF bs.pq = {}
       \/ bs.expansions >= OrElse(bs.params.max_expansions, MAX_EXPANSIONS)
    THEN BeamFinish(bs) ELSE bs

RECURSIVE PushOrigins(_, _, _, _)
\* "for stop_code in self._hakata_stops: push(initial state, 0.0)"
PushOrigins(bs, q, hk, i) ==
    IF i > Len(hk) THEN bs
    ELSE PushOrigins(
            Push(bs, [priority |-> 0, ride_minutes |-> 0,
                      current_time |-> START_TIME_MINUTES,
                      stop_code |-> hk[i], path |-> << >>,
                      unique_count |-> IF bs.params.require_unique THEN 1
                                       ELSE 0,
                      quadrant_mask |-> Get0(q, hk[i]),
                      stop_visit_counts |-> Put(<< >>, hk[i], 1),
                      line_visit_counts |-> << >>, transfers |-> 0], 0),
            q, hk, i + 1)

\* _run_search up to the first test of the while loop.
BeamStart(q, hk, params) ==
    LET bs0 == [status |-> "run", params |-> params, pq |-> {}, counter |-> 0,
                best_key_score |-> << >>, results |-> << >>,
                expansions |-> 0, result |-> None]
    IN  IF stop_edges = << >> THEN [bs0 EXCEPT !.status = "error"]
        ELSE BeamSettle(PushOrigins(bs0, q, hk, 1))

\* One iteration of the while loop: pop the entry with the smallest
\* priority, record it if it completes a round trip, expand it.
BeamExpand(bs, q, hk) ==
    LET top == HeapMin(bs.pq)
        state == top.state
        P == bs.params
        popped == [bs EXCEPT !.pq = bs.pq \ {top}, !.expansions = @ + 1]
        complete == /\ state.path # << >>
                    /\ IsHakata(hk, state.stop_code)
                    /\ state.current_time >= START_TIME_MINUTES + 120
        recorded == complete /\ ~(P.require_quadrants
                                   /\ state.quadrant_mask # 15)
        withResult == IF recorded
                      THEN [popped EXCEPT !.results = Append(@, state)]
                      ELSE popped
        edges == next_edges(state.stop_code,
                            state.current_time + P.min_transfer_minutes)
    IN  IF recorded /\ P.score_key = "loop" /\ state.quadrant_mask = 15
        THEN BeamFinish(withResult)
        ELSE BeamSettle(EdgeLoop(withResult, q, hk, state, edges, 1, 0))

RECURSIVE BeamRunFrom(_, _, _)
BeamRunFrom(bs, q, hk) ==
    IF bs.status # "run" THEN bs
    ELSE BeamRunFrom(BeamExpand(bs, q, hk), q, hk)

\* _run_search(**params): the finished search.
run_search(q, hk, params) == BeamRunFrom(BeamStart(q, hk, params), q, hk)

RECURSIVE collapse_edges(_, _, _)
\* collapse_edges: consecutive edges of one trip and line become one leg;
\* legs holds the finished legs and, last, the buffer being filled.
collapse_edges(edges, i, legs) ==
    IF i > Len(edges) THEN legs
    ELSE LET edge == edges[i]
             last == legs[Len(legs)]
             leg == [line_id |-> edge.line_id, trip_id |-> edge.trip_id,
                     from_code |-> edge.from_code, to_code |-> edge.to_code,
                     depart |-> edge.depart, arrive |-> edge.arrive,
                     distance_km |-> edge.distance_km, stop_hops |-> 1]
         IN  IF legs # << >> /\ edge.trip_id = last.trip_id
                             /\ edge.line_id = last.line_id
             THEN collapse_edges(edges, i + 1,
                    [legs EXCEPT ![Len(legs)] =
                        [last EXCEPT !.to_code = edge.to_code,
                                     !.arrive = edge.arrive,
                                     !.distance_km = @ + edge.distance_km,
                                     !.stop_hops = @ + 1]])
             ELSE collapse_edges(edges, i + 1, Append(legs, leg))

\* The ChallengePlan built from a search result.
BeamPlan(challenge_id, result) ==
    [challenge_id |-> challenge_id,
     legs |-> collapse_edges(result.path, 1, << >>)]

\* The keyword arguments of the searches: _plan_longest_duration_beam,
\* _plan_most_unique_stops_beam and the three attempts of
\* _plan_city_loop_beam in planner.py; plan() of the planners package.
BeamParams(im, ch, attempt) ==
    CASE ch = "longest-duration" \/ (ch = "longest-distance" /\ im = "planner") ->
            SearchParams(<< "ride", FALSE, FALSE, << 2500 >>, << 150000 >>, None,
                            IF im = "planner" THEN None ELSE << 3 >>,
                            IF im = "planner" THEN None ELSE << 2 >>,
                            5, 5, << 3 >>, 900 >>)
      [] ch = "most-stops" ->
            SearchParams(<< "unique", TRUE, FALSE, << 3200 >>, << 180000 >>,
                            << 10 >>, None, None, 6, 6, << 2 >>, 1600 >>)
      [] ch = "city-loop" /\ attempt = 1 ->
            SearchParams(<< "loop", FALSE, TRUE, << 3500 >>, << 220000 >>,
                            << 12 >>, None, None, 5, 5, << 2 >>, 1400 >>)
      [] ch = "city-loop" /\ attempt = 2 ->
            SearchParams(<< "loop", FALSE, TRUE, << 4500 >>, << 260000 >>,
                            << 16 >>, None, None, 5, 5, << 2 >>, 1400 >>)
      [] ch = "city-loop" /\ attempt = 3 ->
            SearchParams(<< "loop", FALSE, FALSE, << 5200 >>, << 320000 >>,
                            << 18 >>, None, None, 5, 5, << 2 >>, 1400 >>)
      [] ch = "longest-distance" /\ im = "planners" ->
            SearchParams(<< "distance", FALSE, FALSE, << 3500 >>, << 220000 >>,
                            << 12 >>, << 4 >>, None, 5, 5, None, 900 >>)

BeamIdle ==
    [status |-> "idle", params |-> << >>, pq |-> {}, counter |-> 0,
     best_key_score |-> << >>, results |-> << >>, expansions |-> 0,
     result |-> None]

\* A queue capacity that the searches on the model's timetables reach.
SmallQueue == 1

\* A beam search of the requested challenge is started, with the
\* max_queue of the caller or with the small capacity.
BeamBegin ==
    /\ beam.status = "idle"
    /\ \E max_queue \in {BeamParams(impl, challenge, 1).max_queue,
                          << SmallQueue >>} :
          beam' = BeamStart(QuadrantMap(impl), hakata_stops,
                            [BeamParams(impl, challenge, 1)
                                EXCEPT !.max_queue = max_queue])

\* The search pops and expands one more state.
BeamStep ==
    /\ beam.status = "run"
    /\ beam' = BeamExpand(beam, QuadrantMap(impl), hakata_stops)

(***************************************************************************)
(* Part 9.  The TSP stitcher of the City Loop: planner_cityloop.py.        *)
(***************************************************************************)
\* float("inf")
Infinity == 1000000

\* distance() of _two_opt_tour: matrix.get((a, b)) or matrix.get((b, a)) or
\* inf; the matrix holds every ordered pair of distinct nodes.
RECURSIVE TourLength(_, _)
TourLength(path, i) ==
    IF i >= Len(path) THEN 0
    ELSE With(HaversineKm(path[i], path[i + 1]), LAMBDA km :
              IF path[i] = path[i + 1] \/ km = 0 THEN Infinity ELSE km)
         + TourLength(path, i + 1)

RECURSIVE NearestNeighbor(_, _, _)
\* The while loop of _nearest_neighbor_tour: min() takes the first of the
\* nearest unvisited stops.
NearestNeighbor(current, unvisited, route) ==
    IF unvisited = << >> THEN route
    ELSE With([i \in 1..Len(unvisited) |->
                    IF unvisited[i] = current THEN Infinity
                    ELSE HaversineKm(current, unvisited[i])],
              LAMBDA dist :
         With(CHOOSE i \in 1..Len(unvisited) :
                    /\ \A j \in 1..Len(unvisited) : dist[i] <= dist[j]
                    /\ \A j \in 1..(i - 1) : dist[j] # dist[i],
              LAMBDA k :
                NearestNeighbor(unvisited[k],
                                [j \in 1..(Len(unvisited) - 1) |->
                                    IF j < k THEN unvisited[j]
                                    ELSE unvisited[j + 1]],
                                Append(route, unvisited[k]))))

nearest_neighbor_tour(nodes) ==
    Append(NearestNeighbor(nodes[1], Tail(nodes), << nodes[1] >>), nodes[1])

RECURSIVE two_opt_tour(_, _)
\* _two_opt_tour: the first improving reversal is applied, at most
\* max_iterations (30) times.
two_opt_tour(best, iterations) ==
    With([ij \in (1..(Len(best) - 3)) \X (2..(Len(best) - 2)) |->
            SubSeq(best, 1, ij[1])
            \o Reverse(SubSeq(best, ij[1] + 1, ij[2]))
            \o SubSeq(best, ij[2] + 1, Len(best))],
         LAMBDA swapped :
    With({ij \in DOMAIN swapped :
            /\ ij[2] > ij[1] + 1
            /\ TourLength(swapped[ij], 1) < TourLength(best, 1)},
         LAMBDA improving :
        IF iterations >= 30 \/ improving = {} THEN best
        ELSE two_opt_tour(
                swapped[CHOOSE ij \in improving : \A kl \in improving :
                            ij[1] < kl[1] \/ (ij[1] = kl[1] /\ ij[2] <= kl[2])],
                iterations + 1)))

RECURSIVE DedupSequences(_, _, _)
DedupSequences(sequences, i, acc) ==
    IF i > Len(sequences) THEN acc
    ELSE DedupSequences(sequences, i + 1,
            IF \E k \in 1..Len(acc) : acc[k] = sequences[i] THEN acc
            ELSE Append(acc, sequences[i]))

\* _generate_tsp_sequences
generate_tsp_sequences(nodes) ==
    With(nearest_neighbor_tour(nodes), LAMBDA nn_route :
    With(two_opt_tour(nn_route, 0), LAMBDA improved :
        DedupSequences(
            << nn_route, Reverse(nn_route) >>
            \o (IF improved # nn_route THEN << improved >> ELSE << >>)
            \o << IF nodes[Len(nodes)] # nodes[1]
                  THEN Append(nodes, nodes[1]) ELSE nodes >>, 1, << >>)))

\* The point-to-point configuration of _assemble_city_loop_plan.
P2PConfig(to_stop) ==
    [challenge_id |-> "p2p", impl |-> "planners", require_quadrants |-> FALSE,
     max_rounds |-> 4, min_transfer_minutes |-> 5,
     max_stop_visits |-> None, max_line_visits |-> None,
     hakata_max_visits |-> None, forbid_non_hakata_duplicates |-> FALSE,
     target |-> to_stop]

RECURSIVE LegsQuadrants(_, _, _, _)
\* The quadrant mask gathered along the legs (planner_cityloop.py 227-232),
\* q being the quadrant_map.
LegsQuadrants(q, legs, i, mask) ==
    IF i > Len(legs) THEN mask
    ELSE LegsQuadrants(q, legs, i + 1,
            BitOr(BitOr(mask, Get0(q, legs[i].from_code)),
                  Get0(q, legs[i].to_code)))

\* _city_loop_plan_is_valid
city_loop_plan_is_valid(legs, final_arrival) ==
    /\ legs # << >>
    /\ final_arrival - START_TIME_MINUTES <= 24 * 60
    /\ With(QuadrantMap("planners"), LAMBDA q :
            LegsQuadrants(q, legs, 1,
                          IF hakata_stops # << >> THEN Get0(q, hakata_stops[1])
                          ELSE 0) = ALL_QUADRANTS_MASK)

RECURSIVE assemble_city_loop_plan(_, _, _, _)
\* _assemble_city_loop_plan, from pair i of the sequence: one router run
\* per pair, with hakata_stops replaced by [from_stop] for the run.
assemble_city_loop_plan(sequence, i, all_legs, current_time) ==
    IF Len(sequence) < 4 THEN None
    ELSE IF i >= Len(sequence)
    THEN IF city_loop_plan_is_valid(all_legs, current_time)
         THEN << [challenge_id |-> "city-loop", legs |-> all_legs] >>
         ELSE None
    ELSE IF sequence[i] = sequence[i + 1]
    THEN assemble_city_loop_plan(sequence, i + 1, all_legs, current_time)
    ELSE With(run_raptor_challenge(<< sequence[i] >>,
                                   P2PConfig(sequence[i + 1])).plan,
              LAMBDA plan :
         IF plan = None THEN None
         ELSE With(plan[1].legs, LAMBDA legs :
              With(IF legs # << >> THEN legs[Len(legs)].arrive
                   ELSE current_time,
                   LAMBDA arrive :
                     IF arrive - START_TIME_MINUTES > 24 * 60 THEN None
                     ELSE assemble_city_loop_plan(sequence, i + 1,
                                                  all_legs \o legs, arrive))))

RECURSIVE FirstTspPlan(_, _)
FirstTspPlan(sequences, i) ==
    IF i > Len(sequences) THEN None
    ELSE With(assemble_city_loop_plan(sequences[i], 1, << >>,
                                      START_TIME_MINUTES),
              LAMBDA plan :
                IF plan # None THEN plan ELSE FirstTspPlan(sequences, i + 1))

\* plan_city_loop_tsp
plan_city_loop_tsp ==
    LET start_stop == hakata_stops[1]
        ordered_candidates ==
            << start_stop >>
            \o SelectSeq(boundary_sequence, LAMBDA code : code # start_stop)
    IN  IF hakata_stops = << >> \/ boundary_sequence = << >> THEN None
        ELSE IF Len(ordered_candidates) < 4 THEN None
        ELSE FirstTspPlan(generate_tsp_sequences(ordered_candidates), 1)

\* No run_raptor_challenge call is in progress.
RaptorIdle ==
    [status |-> "idle", round_idx |-> 0, cur |-> << >>, next |-> << >>,
     marked_stops |-> {}, next_marked |-> {}, to_scan |-> {},
     best_labels |-> << >>, raised |-> FALSE, plan |-> None]

\* The router is called for the requested challenge.
RaptorBegin ==
    /\ raptor.status = "idle"
    /\ raptor' = RaptorStart(hakata_stops, ChallengeConfig(impl, challenge))
    /\ UNCHANGED first_run

\* The router scans one more route; which route of routes_to_scan comes
\* next is the iteration order of a Python set.
RaptorScan ==
    /\ raptor.status = "scan"
    /\ \E route_id \in raptor.to_scan :
          raptor' = RaptorScanRoute(raptor, hakata_stops,
                                    ChallengeConfig(impl, challenge), route_id)
    /\ UNCHANGED first_run

\* The same challenge is computed a second time on the unchanged timetable.
RaptorAgain ==
    /\ raptor.status = "done"
    /\ first_run = None
    /\ first_run' = << raptor.plan >>
    /\ raptor' = RaptorIdle

(***************************************************************************)
(* Part 10.  The strategy chains: planner.py (_plan_longest_duration ...   *)
(* _plan_longest_distance, _plan_*_beam) and plan() of the planners        *)
(* package.                                                                *)
(***************************************************************************)
\* request: where the chain of the requested challenge stands (pc) and the
\* plan it returned.  tried: the strategies run so far, in order, each
\* with whether it produced a plan.
VARIABLES request, tried

RequestIdle == [pc |-> "idle", plan |-> None]

Returned(plan) == [pc |-> "done", plan |-> plan]

Raised == [pc |-> "error", plan |-> None]

Tried(strategy, produced) == [strategy |-> strategy, produced |-> produced]

\* _plan_longest_duration_beam, _plan_most_unique_stops_beam and
\* _plan_city_loop_beam (second and third attempt on an empty result);
\* _plan_longest_distance reuses the longest-duration search.  The value
\* is the finished search that decides the outcome.
plan_beam(ch) ==
    With(run_search(QuadrantMap("planner"), hakata_stops,
                    BeamParams("planner", ch, 1)),
         LAMBDA first :
            IF ch # "city-loop" \/ first.status = "error" \/ first.result # None
            THEN first
            ELSE With(run_search(QuadrantMap("planner"), hakata_stops,
                                 BeamParams("planner", ch, 2)),
                      LAMBDA second :
                        IF second.result # None THEN second
                        ELSE run_search(QuadrantMap("planner"), hakata_stops,
                                        BeamParams("planner", ch, 3))))

\* The chain is entered: planner.py starts with RAPTOR, the planners
\* package with the TSP stitcher (City Loop) or the beam search.
PlanBegin ==
    /\ request.pc = "idle"
    /\ request' = [request EXCEPT !.pc =
                      IF impl = "planner" THEN "raptor"
                      ELSE IF challenge = "city-loop" THEN "tsp"
                      ELSE "beam"]
    /\ UNCHANGED tried

\* planners/city_loop.py 83-85
TryTsp ==
    /\ request.pc = "tsp"
    /\ \E plan \in {plan_city_loop_tsp} :
           /\ tried' = Append(tried, Tried("tsp", plan # None))
           /\ request' = IF plan # None THEN Returned(plan)
                         ELSE [request EXCEPT !.pc = "beam"]

\* The RAPTOR router as a strategy: first in planner.py (a missing plan
\* leads on to the beam search), last in the planners package (its
\* result is returned as it is).  An exception of the scoring function
\* leaves the chain.
TryRaptor ==
    /\ request.pc = "raptor"
    /\ \E run \in {run_raptor_challenge(hakata_stops,
                                          ChallengeConfig(impl, challenge))} :
           /\ tried' = Append(tried, Tried("raptor", run.plan # None))
           /\ request' = IF run.status = "error" THEN Raised
                         ELSE IF run.plan # None THEN Returned(run.plan)
                         ELSE IF impl = "planner"
                         THEN [request EXCEPT !.pc = "beam"]
                         ELSE Returned(None)

\* The beam search as a strategy: last in planner.py (an empty result
\* raises PlannerError), first or second in the planners package (an empty
\* result leads on to RAPTOR).
TryBeam ==
    /\ request.pc = "beam"
    /\ \E search \in {IF impl = "planner" THEN plan_beam(challenge)
                       ELSE run_search(QuadrantMap(impl), hakata_stops,
                                       BeamParams(impl, challenge, 1))} :
         \E found \in {search.status = "done" /\ search.result # None} :
           /\ tried' = Append(tried, Tried("beam", found))
           /\ request' = IF found
                         THEN Returned(<< BeamPlan(challenge,
                                                   search.result[1]) >>)
                         ELSE IF search.status = "error" \/ impl = "planner"
                         THEN Raised
                         ELSE [request EXCEPT !.pc = "raptor"]

(***************************************************************************)
(* Part 11.  dominance_fn over sampled labels.  The samples are labels the *)
(* router builds on the loaded timetable: the base label of an origin stop *)
(* extended by _extend_label along the trips, each scored by the           *)
(* configuration's scoring_fn.                                             *)
(***************************************************************************)
\* dom: three sampled labels and, once compared, which of them dominates
\* which.
VARIABLES dom

\* The longest journey (in segments ridden) of a sampled label.
MaxSampleLegs == 2

\* The label that rides segment s of trip k of the route from the stop the
\* label stands at (as a set: empty when the trip has left or
\* _extend_label rejects the ride).
Board(hk, config, label, rid, k, s) ==
    With(routes[rid], LAMBDA route :
        IF route.stops[s] # (IF label.legs = << >>
                             THEN CHOOSE c \in label.visited : TRUE
                             ELSE label.legs[Len(label.legs)].to_code)
           \/ route.trips[k].departures[s] < label.arrival
        THEN {}
        ELSE With(ExtendLabel(hk, label, route, route.trips[k], s,
                              route.trips[k].departures[s],
                              route.trips[k].arrivals[s + 1], config),
                  LAMBDA ext : IF ext = None THEN {} ELSE {ext[1]}))

RECURSIVE SampleLabels(_, _, _, _)
\* The labels within n rides of the given ones.
SampleLabels(hk, config, labels, n) ==
    IF n = 0 THEN labels
    ELSE SampleLabels(hk, config,
            labels \cup UNION {
                UNION {Board(hk, config, label, rid, ks[1], ks[2]) :
                        label \in labels,
                        ks \in (1..Len(routes[rid].trips))
                               \X (1..(Len(routes[rid].stops) - 1))} :
                rid \in DOMAIN routes},
            n - 1)

\* The sampled labels with their scores; a label whose scoring raises has
\* no score and is left out.
ScoredSamples(hk, config) ==
    {With(LabelMetrics(label), LAMBDA m :
        [label EXCEPT !.score = ScoringFn(config, hk, label, m)]) :
     label \in {l \in SampleLabels(hk, config,
                                  {BaseLabel(config.impl, hk[i]) :
                                        i \in 1..Len(hk)},
                                  MaxSampleLegs) :
                    ~ScoringRaises(config, LabelMetrics(l))}}

\* dominance_fn is applied to every ordered pair of the three samples.
DomCompare ==
    /\ dom.pc = "sampled"
    /\ \E m \in {[i \in 1..3 |-> LabelMetrics(dom.labels[i])]} :
          dom' = [dom EXCEPT
                    !.pc = "compared",
                    !.dominates =
                        [p \in (1..3) \X (1..3) |->
                            DominanceFn(ChallengeConfig(impl, challenge),
                                        dom.labels[p[1]], m[p[1]],
                                        dom.labels[p[2]], m[p[2]])]]

(***************************************************************************)
(* Part 12.  The plan cache and its callers: planner.py (_ensure_plans,    *)
(* _compute_challenges, _plan_longest_duration ... _plan_longest_distance) *)
(* and routes.py (get_planner_service, list_challenges, get_challenge).    *)
(* The timetable files on disk all hold the loaded timetable, so a reload  *)
(* rebuilds the edges and routes the service already has; the realtime     *)
(* payload holds no segment.                                               *)
(***************************************************************************)
\* data_dir: the newest timetable file on disk (None when there is none)
\* and its st_mtime.  now: time.time().  realtime_env: realtime is asked
\* for and an API key is set.  planner_service: the module global
\* _planner_service of routes.py, None or the index of a service.
\* services: the PlannerService objects constructed so far, each with its
\* cache, its freshness markers and the holder of its lock (0: free).
\* calls: the request threads; each remembers how its last call ended.
VARIABLES data_dir, now, realtime_env, planner_service, services, calls

MaxMtime == 2
MaxTicks == 1

varsCache == <<data_dir, now, realtime_env, planner_service, services, calls>>

\* self._realtime_cache_seconds = max(30, DEFAULT_REALTIME_CACHE_SECONDS)
DEFAULT_REALTIME_CACHE_SECONDS == 120

\* _plan_longest_duration ... _plan_longest_distance: the RAPTOR plan, or
\* else the plan of the beam search; None stands for PlannerError.
plan_challenge(ch) ==
    With(run_raptor_challenge(hakata_stops, ChallengeConfig("planner", ch)),
         LAMBDA run :
            IF run.status = "error" THEN None
            ELSE IF run.plan # None THEN run.plan
            ELSE With(plan_beam(ch), LAMBDA search :
                    IF search.status = "done" /\ search.result # None
                    THEN << BeamPlan(ch, search.result[1]) >>
                    ELSE None))

\* _compute_challenges: the four plans, computed one after the other.
compute_challenges ==
    [ch \in {"longest-duration", "most-stops", "city-loop",
             "longest-distance"} |-> plan_challenge(ch)]

\* PlannerService.__init__
NewService ==
    [cache |-> None, cache_mtime |-> 0, latest_data_file |-> None,
     cache_generated_at |-> 0, realtime_active |-> realtime_env, lock |-> 0]

\* static_stale of _ensure_plans.
StaticStale(s, latest, latest_mtime) ==
    \/ s.cache = None
    \/ s.latest_data_file # latest
    \/ s.cache_mtime < latest_mtime

\* The test without the realtime age of the cache.
CacheFreshWithoutAge(s, latest, latest_mtime, now_ts) ==
    /\ s.cache # None
    /\ ~StaticStale(s, latest, latest_mtime)

\* The test on which _ensure_plans returns the cache as it is.
CacheFresh(s, latest, latest_mtime, now_ts) ==
    /\ s.cache # None
    /\ ~StaticStale(s, latest, latest_mtime)
    /\ ~(s.realtime_active
         /\ now_ts - s.cache_generated_at >= DEFAULT_REALTIME_CACHE_SECONDS)

\* A refresh that forgets the cache when it fails.
RefreshOutcomeDroppingCache(s, c, loaded, plans) ==
    IF ~loaded \/ \E ch \in DOMAIN plans : plans[ch] = None
    THEN [s EXCEPT !.cache = None, !.cache_mtime = 0,
                   !.latest_data_file = None, !.cache_generated_at = 0,
                   !.lock = 0]
    ELSE [s EXCEPT !.cache = << plans >>, !.cache_mtime = c.latest_mtime,
                   !.latest_data_file = c.latest,
                   !.cache_generated_at = c.now_ts, !.lock = 0]

\* The service when the with-block of _ensure_plans is left after a
\* refresh for the call c: by an exception of the reload (loaded false) or
\* of a _plan_ method (an entry of plans is None), or with the cache and
\* its markers set.
RefreshOutcome(s, c, loaded, plans) ==
    IF ~loaded \/ \E ch \in DOMAIN plans : plans[ch] = None
    THEN [s EXCEPT !.lock = 0]
    ELSE [s EXCEPT !.cache = << plans >>, !.cache_mtime = c.latest_mtime,
                   !.latest_data_file = c.latest,
                   !.cache_generated_at = c.now_ts, !.lock = 0]

\* The request threads of the web server.
Threads == {1, 2}

CallIdle ==
    [pc |-> "idle", service |-> 0, latest |-> None, latest_mtime |-> 0,
     now_ts |-> 0, outcome |-> "none", plans |-> None, failed |-> {}]

\* get_planner_service: the global is tested and, once it is set, read.
GetPlannerService(t) ==
    /\ calls[t].pc \in {"idle", "return"}
    /\ calls' = [calls EXCEPT ![t] =
                    IF planner_service = None
                    THEN [CallIdle EXCEPT !.pc = "construct"]
                    ELSE [CallIdle EXCEPT !.pc = "enter",
                                          !.service = planner_service[1]]]
    /\ UNCHANGED <<data_dir, now, realtime_env, planner_service, services>>

\* get_planner_service: _planner_service = PlannerService()
Construct(t) ==
    /\ calls[t].pc = "construct"
    /\ services' = Append(services, NewService)
    /\ planner_service' = << Len(services) + 1 >>
    /\ calls' = [calls EXCEPT ![t].pc = "return"]
    /\ UNCHANGED <<data_dir, now, realtime_env>>

\* _ensure_plans up to the staleness test: the lock is taken, the newest
\* file, its mtime and the time are read; a fresh cache is returned and the
\* lock released.
EnsureEnter(t) ==
    /\ calls[t].pc = "enter"
    /\ services[calls[t].service].lock = 0
    /\ IF CacheFresh(services[calls[t].service], data_dir.file,
                     data_dir.mtime, now)
       THEN /\ calls' = [calls EXCEPT ![t] =
                            [CallIdle EXCEPT !.outcome = "cached",
                                !.plans = services[calls[t].service].cache]]
            /\ UNCHANGED services
       ELSE /\ calls' = [calls EXCEPT ![t].pc = "refresh",
                                      ![t].latest = data_dir.file,
                                      ![t].latest_mtime = data_dir.mtime,
                                      ![t].now_ts = now]
            /\ services' = [services EXCEPT ![calls[t].service].lock = t]
    /\ UNCHANGED <<data_dir, now, realtime_env, planner_service>>

\* _ensure_plans from the reload to the end of the with-block:
\* _load_static_assets and _load_edges (PlannerError when there is no
\* file) on a structural change, else _refresh_stop_schedules; then
\* _compute_challenges and the cache update.
EnsureRefresh(t) ==
    /\ calls[t].pc = "refresh"
    /\ \E loaded \in {~StaticStale(services[calls[t].service],
                                   calls[t].latest, calls[t].latest_mtime)
                      \/ calls[t].latest # None} :
       \E plans \in {IF loaded THEN compute_challenges ELSE << >>} :
         /\ services' = [services EXCEPT ![calls[t].service] =
                            RefreshOutcome(@, calls[t], loaded, plans)]
         /\ calls' = [calls EXCEPT ![t] =
               [CallIdle EXCEPT
                  !.failed = {ch \in DOMAIN plans : plans[ch] = None},
                  !.outcome = IF ~loaded THEN "load_error"
                              ELSE IF \E ch \in DOMAIN plans : plans[ch] = None
                              THEN "plan_error"
                              ELSE "computed",
                  !.plans = IF loaded /\ \A ch \in DOMAIN plans :
                                             plans[ch] # None
                            THEN << plans >> ELSE None]]
    /\ UNCHANGED <<data_dir, now, realtime_env, planner_service>>

\* The timetable file is rewritten or removed.  The program reads the
\* directory and the clock at the entry of _ensure_plans only, so a change
\* during a refresh is taken after it.
DataDirChanges ==
    /\ \A t \in Threads : calls[t].pc # "refresh"
    /\ \E f \in {None, << "segments_a" >>} :
       \E m \in 1..MaxMtime :
          /\ data_dir' = [file |-> f, mtime |-> IF f = None THEN 0 ELSE m]
          /\ data_dir' # data_dir
    /\ UNCHANGED <<now, realtime_env, planner_service, services, calls>>

\* The clock advances by one cache period.
Tick ==
    /\ \A t \in Threads : calls[t].pc # "refresh"
    /\ now < 1000 + DEFAULT_REALTIME_CACHE_SECONDS * MaxTicks
    /\ now' = now + DEFAULT_REALTIME_CACHE_SECONDS
    /\ UNCHANGED <<data_dir, realtime_env, planner_service, services, calls>>

(***************************************************************************)
(* Part 13.  The rest stops of a plan's payload: generate_rest_stops of    *)
(* planner.py (used by its ChallengePlan.to_dict) and of planner_utils.py  *)
(* (used by planner_models.ChallengePlan.to_dict).                         *)
(***************************************************************************)
REST_STOP_THRESHOLD == 15

\* The five suggestion texts, by a keyword each.
REST_SUGGESTIONS == << "drink", "bakery", "stroll", "bench", "stretch" >>

\* sum(ord(ch) for ch in code) of the one-letter stop codes.
OrdSum(code) ==
    CASE code = "A" -> 65 [] code = "B" -> 66 [] code = "C" -> 67
      [] code = "D" -> 68 [] code = "H" -> 72

RECURSIVE generate_rest_stops(_, _, _, _)
\* The loop over zip(legs, legs[1:]) from the pair (legs[i], legs[i + 1]) on,
\* with the results collected so far: planner.py picks the suggestion by
\* the stop code, planner_utils.py by the number of results.
generate_rest_stops(im, legs, i, results) ==
    IF i >= Len(legs) THEN results
    ELSE generate_rest_stops(im, legs, i + 1,
            IF legs[i + 1].depart - legs[i].arrive < REST_STOP_THRESHOLD
            THEN results
            ELSE Append(results,
                    [at |-> legs[i].to_code,
                     minutes |-> legs[i + 1].depart - legs[i].arrive,
                     suggestion |->
                        REST_SUGGESTIONS[
                           ((IF im = "planner" THEN OrdSum(legs[i].to_code)
                             ELSE Len(results)) % Len(REST_SUGGESTIONS))
                           + 1]]))

(***************************************************************************)
(* Part 14.  One (round, stop) bucket under _insert_label: raptor.py        *)
(* 321-348.  The candidates are the labels of single rides from the origin  *)
(* to stop A on a timetable with many trips, so that the bucket fills up.   *)
(***************************************************************************)
\* bucket: the candidate labels (candidates), the bucket list (labels) and
\* the last _insert_label call: its label and its return value (last).
VARIABLES bucket

BucketIdle == [candidates |-> {}, labels |-> << >>, last |-> None]

\* The trips of the timetable that leave together and arrive one minute
\* after one another: none of their labels dominates another.
FrontTrips == 7

BucketTripIds ==
    << "B1", "B2", "B3", "B4", "B5", "B6", "B7", "B8", "B9", "B10", "B11",
       "B12" >>

\* Line LB from H to A: the trips above, a late and short trip, and an
\* early and long one.
BucketEdges ==
    [k \in 1..FrontTrips |->
        TripEdge("LB", BucketTripIds[k], "H", "A", 430, 440 + k)]
    \o << TripEdge("LB", BucketTripIds[FrontTrips + 1], "H", "A", 445, 450),
          TripEdge("LB", BucketTripIds[FrontTrips + 2], "H", "A", 425, 445) >>

\* rounds[round_idx + 1][to_stop] receives one more candidate:
\* _insert_label(bucket, label, metrics, config, get_metrics).
InsertCandidate ==
    \E label \in bucket.candidates :
    \E r \in {InsertLabel(bucket.labels, label, LabelMetrics(label),
                          ChallengeConfig(impl, challenge))} :
        bucket' = [bucket EXCEPT
                      !.labels = r.bucket,
                      !.last = << [label |-> label, inserted |-> r.inserted] >>]

(***************************************************************************)
(* Part 15.  Inputs of the route timetable builder: a segments file with    *)
(* one trip of line L6 (H, A, B), each row with its own two clock times.    *)
(***************************************************************************)
\* The clock times of the rows: START_TIME_MINUTES + 10 * k, k in 0..ClockSteps.
ClockSteps == 4

RowClocks == {START_TIME_MINUTES + 10 * k : k \in 0..ClockSteps}

\* load_segment_edges keeps a row as it stands when its arrival is after its
\* departure (planner_loader.py 358-359); no row is compared with another.
TwoSegmentTrips ==
    {<< TripEdge("L6", "T6", "H", "A", d1, a1),
        TripEdge("L6", "T6", "A", "B", d2, a2) >> :
        d1 \in RowClocks, a1 \in RowClocks, d2 \in RowClocks, a2 \in RowClocks}

(***************************************************************************)
(* Part 16.  A shuttle timetable: from H out to one stop after another and  *)
(* back each time, so that a journey can return to the origin repeatedly.   *)
(***************************************************************************)
\* The stops the shuttle serves, one round trip each.
ShuttleTrips == 3

ShuttleStops == << "A", "B", "C", "D" >>
ShuttleOutLines == << "LB", "LC", "LD", "LE" >>
ShuttleBackLines == << "LR", "L10", "L5", "L4" >>

\* The minute the first ride leaves H.
ShuttleFirsts == {425, 430}

RECURSIVE ShuttleEdges(_, _)
\* Round trip k leaves H 50 minutes after round trip k - 1 did: out in 15
\* minutes, 5 minutes to change, back in 20.
ShuttleEdges(k, depart) ==
    IF k > ShuttleTrips THEN << >>
    ELSE << TripEdge(ShuttleOutLines[k], BucketTripIds[2 * k - 1],
                     "H", ShuttleStops[k], depart, depart + 15),
            TripEdge(ShuttleBackLines[k], BucketTripIds[2 * k],
                     ShuttleStops[k], "H", depart + 20, depart + 40) >>
         \o ShuttleEdges(k + 1, depart + 50)

(***************************************************************************)
(* Part 17.  The writes of _assemble_city_loop_plan to service.hakata_stops *)
(* (planner_cityloop.py 176-187), call by call of plan_city_loop_tsp.       *)
(***************************************************************************)
\* stitch: where plan_city_loop_tsp stands (pc), its candidate tours
\* (sequences), the tour the next _assemble_city_loop_plan call is for (idx)
\* and the origin list at entry (before).
VARIABLES stitch

StitchIdle == [pc |-> "idle", sequences |-> << >>, idx |-> 1, before |-> << >>]

RECURSIVE AssembleRun(_, _, _, _, _, _)
\* _assemble_city_loop_plan from pair i of the sequence: how the call ends
\* and what service.hakata_stops holds then.  hk is the origin list at the
\* head of the loop body; raise_at is the pair at whose router call an
\* exception leaves run_raptor_challenge (0 for none).  Nothing between the
\* assignment of [from_stop] and the restoring assignment catches it.
AssembleRun(hk, sequence, i, all_legs, current_time, raise_at) ==
    IF Len(sequence) < 4 THEN [hakata_stops |-> hk, outcome |-> "none"]
    ELSE IF i >= Len(sequence)
    THEN [hakata_stops |-> hk,
          outcome |-> IF city_loop_plan_is_valid(all_legs, current_time)
                      THEN "plan" ELSE "none"]
    ELSE IF sequence[i] = sequence[i + 1]
    THEN AssembleRun(hk, sequence, i + 1, all_legs, current_time, raise_at)
    ELSE IF i = raise_at
    THEN [hakata_stops |-> << sequence[i] >>, outcome |-> "raised"]
    ELSE With(run_raptor_challenge(<< sequence[i] >>,
                                   P2PConfig(sequence[i + 1])),
              LAMBDA run :
         IF run.status = "error"
         THEN [hakata_stops |-> << sequence[i] >>, outcome |-> "raised"]
         ELSE IF run.plan = None THEN [hakata_stops |-> hk, outcome |-> "none"]
         ELSE With(run.plan[1].legs, LAMBDA legs :
              With(IF legs # << >> THEN legs[Len(legs)].arrive
                   ELSE current_time,
                   LAMBDA arrive :
                     IF arrive - START_TIME_MINUTES > 24 * 60
                     THEN [hakata_stops |-> hk, outcome |-> "none"]
                     ELSE AssembleRun(hk, sequence, i + 1, all_legs \o legs,
                                      arrive, raise_at))))

\* plan_city_loop_tsp up to its loop over the candidate tours.
StitchBegin ==
    /\ stitch.pc = "idle"
    /\ stitch' =
          IF hakata_stops = << >> \/ boundary_sequence = << >>
          THEN [stitch EXCEPT !.pc = "done"]
          ELSE With(<< hakata_stops[1] >>
                    \o SelectSeq(boundary_sequence,
                                 LAMBDA code : code # hakata_stops[1]),
                    LAMBDA ordered_candidates :
                      IF Len(ordered_candidates) < 4
                      THEN [stitch EXCEPT !.pc = "done"]
                      ELSE [pc |-> "run",
                            sequences |-> generate_tsp_sequences(ordered_candidates),
                            idx |-> 1, before |-> hakata_stops])
    /\ UNCHANGED hakata_stops

\* One _assemble_city_loop_plan call of the loop, for the next tour.
AssembleCityLoopPlan ==
    /\ stitch.pc = "run"
    /\ \E raise_at \in 0..(Len(stitch.sequences[stitch.idx]) - 1) :
       \E r \in {AssembleRun(hakata_stops, stitch.sequences[stitch.idx], 1,
                             << >>, START_TIME_MINUTES, raise_at)} :
          /\ hakata_stops' = r.hakata_stops
          /\ stitch' = [stitch EXCEPT
                           !.pc = IF r.outcome = "raised" THEN "raised"
                                  ELSE IF r.outcome = "plan" THEN "done"
                                  ELSE IF stitch.idx = Len(stitch.sequences)
                                  THEN "done" ELSE "run",
                           !.idx = IF r.outcome = "none" THEN @ + 1 ELSE @]

(***************************************************************************)
(* Specifications                                                          *)
(***************************************************************************)
vars == <<static_edges, patches, stop_edges,
          stations, hakata_stops, city_boundary, boundary_sequence,
          routes, impl, challenge, raptor, first_run, beam, request, tried,
          dom, data_dir, now, realtime_env, planner_service, services, calls,
          bucket, stitch>>

varsNoCache == <<static_edges, patches, stop_edges, stations, hakata_stops,
                 city_boundary, boundary_sequence, routes, impl, challenge,
                 raptor, first_run, beam, request, tried, dom, bucket,
                 stitch>>
varsNoBucket == <<static_edges, patches, stop_edges, stations, hakata_stops,
                  city_boundary, boundary_sequence, routes, impl, challenge,
                  raptor, first_run, beam, request, tried, dom, varsCache,
                  stitch>>
varsPlanningNoStitch == <<routes, impl, challenge, raptor, first_run, beam,
                          request, tried, dom, varsCache, bucket>>
varsEdges == <<static_edges, patches, stop_edges>>
varsBoundary == <<stations, hakata_stops, city_boundary, boundary_sequence>>
varsService == <<static_edges, patches, stop_edges, stations, hakata_stops,
                 city_boundary, boundary_sequence, routes, impl, challenge>>
varsPlanning == <<routes, impl, challenge, raptor, first_run, beam,
                  request, tried, dom, varsCache, bucket, stitch>>

\* The parts a specification does not exercise stay as constructed.
EdgesIdle ==
    /\ static_edges = << >>
    /\ patches = << >>
    /\ stop_edges = << >>

SearchesIdle ==
    /\ raptor = RaptorIdle
    /\ first_run = None
    /\ beam = BeamIdle
    /\ request = RequestIdle
    /\ tried = << >>
    /\ dom = [pc |-> "idle", labels |-> << >>, dominates |-> << >>]
    /\ data_dir = [file |-> None, mtime |-> 0]
    /\ now = 1000
    /\ realtime_env = FALSE
    /\ planner_service = None
    /\ services = << >>
    /\ calls = [t \in Threads |-> CallIdle]
    /\ bucket = BucketIdle
    /\ stitch = StitchIdle

PlanningIdle ==
    /\ routes = << >>
    /\ impl = "planner"
    /\ challenge = "longest-duration"
    /\ SearchesIdle

\* Edge construction and realtime overlay.
InitEdges ==
    /\ EdgesIdle
    /\ stations = {}
    /\ hakata_stops = << >>
    /\ city_boundary = FALSE
    /\ boundary_sequence = << >>
    /\ PlanningIdle

NextEdges ==
    \/ LoadSegments /\ UNCHANGED <<varsBoundary, varsPlanning>>
    \/ LoadTimetable /\ UNCHANGED <<varsBoundary, varsPlanning>>
    \/ RefreshRealtime /\ UNCHANGED <<varsBoundary, varsPlanning>>
    \/ RefreshStopSchedules
          /\ UNCHANGED <<stations, hakata_stops, city_boundary, impl,
                         challenge, raptor, first_run, beam, request, tried,
                         dom, varsCache, bucket, stitch>>

SpecEdges == InitEdges /\ [][NextEdges]_vars

\* Boundary sequence construction over a loaded station file that holds
\* the origin stop H and any of the other catalogue stations.
InitBoundary ==
    /\ EdgesIdle
    /\ stations \in {S \in SUBSET (DOMAIN StationTable) : "H" \in S}
    /\ hakata_stops = << "H" >>
    /\ city_boundary \in BOOLEAN
    /\ boundary_sequence = << >>
    /\ PlanningIdle

NextBoundary ==
    \/ BuildBoundarySequence /\ UNCHANGED <<varsEdges, varsPlanning>>
    \/ LoaderBuildBoundarySequence /\ UNCHANGED <<varsEdges, varsPlanning>>

SpecBoundary == InitBoundary /\ [][NextBoundary]_vars

\* The timetables the router is exercised on.  Line L1 (and its twin L6,
\* same stops, same times) leaves the origin at the given minute; L2, L3
\* and L4 go on round the city; L5 returns from C; L7 runs C, D, H; L8 runs
\* back from B to A, L9 from A over D to B again, L10 from B home.
LineEdges(d) ==
    [L1 |-> << TripEdge("L1", "T1", "H", "A", d, d + 16),
               TripEdge("L1", "T1", "A", "B", d + 22, d + 38) >>,
     L6 |-> << TripEdge("L6", "T6", "H", "A", d, d + 16),
               TripEdge("L6", "T6", "A", "B", d + 22, d + 38) >>,
     L2 |-> << TripEdge("L2", "T2", "B", "C", 480, 500) >>,
     L3 |-> << TripEdge("L3", "T3", "C", "D", 510, 530) >>,
     L4 |-> << TripEdge("L4", "T4", "D", "H", 540, 560) >>,
     L5 |-> << TripEdge("L5", "T5", "C", "H", 510, 560) >>,
     L7 |-> << TripEdge("L7", "T7", "C", "D", 502, 518),
               TripEdge("L7", "T7", "D", "H", 525, 550) >>,
     L8 |-> << TripEdge("L8", "T8", "B", "A", 480, 500) >>,
     L9 |-> << TripEdge("L9", "T9", "A", "D", 505, 515),
               TripEdge("L9", "T9", "D", "B", 520, 530) >>,
     L10 |-> << TripEdge("L10", "T10", "B", "H", 545, 565) >>,
     L11 |-> << TripEdge("L11", "T11", "B", "A", 485, 500) >>]

Timetables ==
    UNION {{ With(LineEdges(d), LAMBDA l : l.L1 \o l.L2 \o l.L5),
             With(LineEdges(d), LAMBDA l : l.L1 \o l.L6 \o l.L2 \o l.L5),
             With(LineEdges(d), LAMBDA l : l.L1 \o l.L2 \o l.L3 \o l.L4),
             With(LineEdges(d), LAMBDA l : l.L1 \o l.L2 \o l.L7),
             With(LineEdges(d), LAMBDA l : l.L1 \o l.L8 \o l.L2 \o l.L5),
             With(LineEdges(d), LAMBDA l : l.L1 \o l.L11 \o l.L9 \o l.L10) }
           : d \in {422, 430}}

\* The service after load_static_assets and _refresh_stop_schedules on one
\* of the timetables, with no realtime patch.
InitLoaded ==
    /\ static_edges \in Timetables
    /\ patches = << >>
    /\ stop_edges = static_edges
    /\ stations = {"H", "A", "B", "C", "D"}
    /\ hakata_stops = << "H" >>
    /\ city_boundary = TRUE
    /\ impl \in {"planner", "planners"}
    /\ challenge \in {"longest-duration", "most-stops", "city-loop",
                     "longest-distance"}
    /\ boundary_sequence = IF impl = "planner" THEN BoundarySequenceOfPlanner
                           ELSE BoundarySequenceOfLoader
    /\ routes = BuildRouteTimetables(static_edges)

\* The RAPTOR router, run once and then once more on the same timetable.
InitRaptor ==
    /\ InitLoaded
    /\ SearchesIdle

NextRaptor ==
    \/ RaptorBegin /\ UNCHANGED <<varsService, beam, request, tried, dom,
                                  varsCache, bucket, stitch>>
    \/ RaptorScan /\ UNCHANGED <<varsService, beam, request, tried, dom,
                                  varsCache, bucket, stitch>>
    \/ RaptorAgain /\ UNCHANGED <<varsService, beam, request, tried, dom,
                                  varsCache, bucket, stitch>>

SpecRaptor == InitRaptor /\ [][NextRaptor]_vars

\* One beam search, expansion by expansion.
InitBeam ==
    /\ InitLoaded
    /\ SearchesIdle

NextBeam ==
    \/ BeamBegin
          /\ UNCHANGED <<varsService, raptor, first_run, request, tried, dom,
                         varsCache, bucket, stitch>>
    \/ BeamStep
          /\ UNCHANGED <<varsService, raptor, first_run, request, tried, dom,
                         varsCache, bucket, stitch>>

SpecBeam == InitBeam /\ [][NextBeam]_vars

\* The strategy chain of one challenge request.
InitPlan ==
    /\ InitLoaded
    /\ SearchesIdle

NextPlan ==
    \/ PlanBegin /\ UNCHANGED <<varsService, raptor, first_run, beam, dom,
                               varsCache, bucket, stitch>>
    \/ TryTsp /\ UNCHANGED <<varsService, raptor, first_run, beam, dom,
                               varsCache, bucket, stitch>>
    \/ TryRaptor /\ UNCHANGED <<varsService, raptor, first_run, beam, dom,
                               varsCache, bucket, stitch>>
    \/ TryBeam /\ UNCHANGED <<varsService, raptor, first_run, beam, dom,
                               varsCache, bucket, stitch>>

SpecPlan == InitPlan /\ [][NextPlan]_vars

\* dominance_fn applied to three labels sampled on the loaded timetable.
InitDom ==
    /\ InitLoaded
    /\ raptor = RaptorIdle
    /\ first_run = None
    /\ beam = BeamIdle
    /\ request = RequestIdle
    /\ tried = << >>
    /\ data_dir = [file |-> None, mtime |-> 0]
    /\ now = 1000
    /\ realtime_env = FALSE
    /\ planner_service = None
    /\ services = << >>
    /\ calls = [t \in Threads |-> CallIdle]
    /\ bucket = BucketIdle
    /\ stitch = StitchIdle
    /\ \E samples \in {ScoredSamples(hakata_stops,
                                      ChallengeConfig(impl, challenge))} :
          dom \in {[pc |-> "sampled", labels |-> << a, b, c >>,
                    dominates |-> << >>] :
                        a \in samples, b \in samples, c \in samples}

NextDom ==
    DomCompare /\ UNCHANGED <<varsService, raptor, first_run, beam, request,
                              tried, varsCache, bucket, stitch>>

SpecDom == InitDom /\ [][NextDom]_vars

\* The web server's request threads on a service that is yet to be
\* constructed; the data directory holds a timetable file or none.
InitCache ==
    /\ InitLoaded
    /\ impl = "planner"
    /\ challenge = "longest-duration"
    /\ static_edges[1].depart = 430
    /\ {static_edges[i].line_id : i \in DOMAIN static_edges}
           \in {{"L1", "L2", "L5"}, {"L1", "L2", "L7"}}
    /\ raptor = RaptorIdle
    /\ first_run = None
    /\ beam = BeamIdle
    /\ request = RequestIdle
    /\ tried = << >>
    /\ dom = [pc |-> "idle", labels |-> << >>, dominates |-> << >>]
    /\ data_dir = [file |-> << "segments_a" >>, mtime |-> 1]
    /\ now = 1000
    /\ realtime_env \in BOOLEAN
    /\ planner_service = None
    /\ services = << >>
    /\ calls = [t \in Threads |-> CallIdle]
    /\ bucket = BucketIdle
    /\ stitch = StitchIdle

NextCache ==
    \/ \E t \in Threads : GetPlannerService(t) /\ UNCHANGED varsNoCache
    \/ \E t \in Threads : Construct(t) /\ UNCHANGED varsNoCache
    \/ \E t \in Threads : EnsureEnter(t) /\ UNCHANGED varsNoCache
    \/ \E t \in Threads : EnsureRefresh(t) /\ UNCHANGED varsNoCache
    \/ DataDirChanges /\ UNCHANGED varsNoCache
    \/ Tick /\ UNCHANGED varsNoCache

SpecCache == InitCache /\ [][NextCache]_vars

\* _refresh_stop_schedules on a loaded segments file of one two-segment trip.
InitTimetable ==
    /\ static_edges \in {t \in TwoSegmentTrips :
                            \A i \in 1..Len(t) : t[i].arrive > t[i].depart}
    /\ patches = << >>
    /\ stop_edges = << >>
    /\ stations = {"H", "A", "B", "C", "D"}
    /\ hakata_stops = << "H" >>
    /\ city_boundary = TRUE
    /\ boundary_sequence = << >>
    /\ PlanningIdle

NextTimetable ==
    RefreshStopSchedules
        /\ UNCHANGED <<stations, hakata_stops, city_boundary, impl, challenge,
                       raptor, first_run, beam, request, tried, dom, varsCache,
                       bucket, stitch>>

SpecTimetable == InitTimetable /\ [][NextTimetable]_vars

\* One beam search on the shuttle timetable.
InitShuttle ==
    /\ static_edges \in {ShuttleEdges(1, first) : first \in ShuttleFirsts}
    /\ patches = << >>
    /\ stop_edges = static_edges
    /\ stations = {"H", "A", "B", "C", "D"}
    /\ hakata_stops = << "H" >>
    /\ city_boundary = TRUE
    /\ impl \in {"planner", "planners"}
    /\ challenge \in {"longest-duration", "most-stops", "city-loop",
                     "longest-distance"}
    /\ boundary_sequence = IF impl = "planner" THEN BoundarySequenceOfPlanner
                           ELSE BoundarySequenceOfLoader
    /\ routes = BuildRouteTimetables(static_edges)
    /\ SearchesIdle

SpecShuttle == InitShuttle /\ [][NextBeam]_vars

\* plan_city_loop_tsp on a loaded timetable, with one origin stop or two.
InitStitch ==
    /\ static_edges \in Timetables
    /\ patches = << >>
    /\ stop_edges = static_edges
    /\ stations = {"H", "A", "B", "C", "D", "G"}
    /\ hakata_stops \in {<< "H" >>, << "H", "G" >>}
    /\ city_boundary = TRUE
    /\ impl = "planners"
    /\ challenge = "city-loop"
    /\ boundary_sequence = BoundarySequenceOfLoader
    /\ routes = BuildRouteTimetables(static_edges)
    /\ SearchesIdle

NextStitch ==
    \/ StitchBegin
          /\ UNCHANGED <<static_edges, patches, stop_edges, stations,
                         city_boundary, boundary_sequence, varsPlanningNoStitch>>
    \/ AssembleCityLoopPlan
          /\ UNCHANGED <<static_edges, patches, stop_edges, stations,
                         city_boundary, boundary_sequence, varsPlanningNoStitch>>

SpecStitch == InitStitch /\ [][NextStitch]_vars


(***************************************************************************)

\* _insert_label on one bucket, for the labels of the rides from H to A.
InitBucket ==
    /\ static_edges = BucketEdges
    /\ patches = << >>
    /\ stop_edges = static_edges
    /\ stations = {"H", "A", "B", "C", "D"}
    /\ hakata_stops = << "H" >>
    /\ city_boundary = TRUE
    /\ impl \in {"planner", "planners"}
    /\ challenge \in {"longest-duration", "most-stops", "city-loop",
                     "longest-distance"}
    /\ boundary_sequence = IF impl = "planner" THEN BoundarySequenceOfPlanner
                           ELSE BoundarySequenceOfLoader
    /\ routes = BuildRouteTimetables(static_edges)
    /\ raptor = RaptorIdle
    /\ first_run = None
    /\ beam = BeamIdle
    /\ request = RequestIdle
    /\ tried = << >>
    /\ dom = [pc |-> "idle", labels |-> << >>, dominates |-> << >>]
    /\ data_dir = [file |-> None, mtime |-> 0]
    /\ now = 1000
    /\ realtime_env = FALSE
    /\ planner_service = None
    /\ services = << >>
    /\ calls = [t \in Threads |-> CallIdle]
    /\ bucket = [BucketIdle EXCEPT !.candidates =
                    {l \in ScoredSamples(hakata_stops,
                                         ChallengeConfig(impl, challenge)) :
                        l.legs # << >>}]
    /\ stitch = StitchIdle

NextBucket == InsertCandidate /\ UNCHANGED <<varsNoBucket>>

SpecBucket == InitBucket /\ [][NextBucket]_vars

(* Claims                                                                  *)
(***************************************************************************)

ReturnedLegs == request.plan[1].legs

\* C1: for every plan returned by a planner (RAPTOR router, beam search,
\* TSP stitcher), the first leg's from-stop and the last leg's to-stop are
\* both members of the origin stop set.
C1_PlanStartsAndEndsAtOrigin ==
    (request.pc = "done" /\ request.plan # None)
        => /\ IsHakata(hakata_stops, ReturnedLegs[1].from_code)
           /\ IsHakata(hakata_stops, ReturnedLegs[Len(ReturnedLegs)].to_code)

\* C2: in every returned plan the legs chain: each leg departs from the
\* stop where the previous leg arrived.
C2_LegsChain ==
    (request.pc = "done" /\ request.plan # None)
        => \A i \in 1..(Len(ReturnedLegs) - 1) :
              ReturnedLegs[i].to_code = ReturnedLegs[i + 1].from_code

\* C3: every label the RAPTOR router records as an accepted candidate under
\* the City Loop configuration has quadrant_mask == 15.
C3_CityLoopAcceptedHaveAllQuadrants ==
    challenge = "city-loop"
        => \A i \in 1..Len(raptor.best_labels) :
              raptor.best_labels[i].quadrant_mask = ALL_QUADRANTS_MASK

C3_Witness ==
    /\ challenge = "city-loop"
    /\ raptor.best_labels # << >>

\* The stops the timetable serves do not cover the four quadrants, so no
\* journey over it touches all four.
NoFourQuadrantJourney ==
    LET q == QuadrantMap(impl)
        served == {stop_edges[i].from_code : i \in 1..Len(stop_edges)}
                  \cup {stop_edges[i].to_code : i \in 1..Len(stop_edges)}
    IN  \E bit \in QuadrantBits :
            \A stop \in served : ~HasBit(Get0(q, stop), bit)

\* C4: when the timetable admits no journey from an origin stop back to an
\* origin stop that touches all four quadrants, City Loop planning returns
\* no plan: it neither raises an error nor returns a plan.
C4_CityLoopReturnsNoPlan ==
    (challenge = "city-loop" /\ NoFourQuadrantJourney
        /\ request.pc \in {"done", "error"})
        => (request.pc = "done" /\ request.plan = None)

StrategyRank(strategy) ==
    CASE strategy = "tsp" -> 1
      [] strategy = "raptor" -> 2
      [] strategy = "beam" -> 3

\* C5 as stated: for each of the four challenge configurations
\* dominance_fn is a strict partial order on labels: no label dominates
\* itself, and dominance is transitive.
C5_DominanceStrictPartialOrder ==
    dom.pc = "compared"
        => /\ \A i \in 1..3 : ~dom.dominates[<< i, i >>]
           /\ \A i, j, k \in 1..3 :
                 (dom.dominates[<< i, j >>] /\ dom.dominates[<< j, k >>])
                     => dom.dominates[<< i, k >>]

\* C5: for each of the four challenge configurations dominance_fn is
\* transitive, and every label dominates itself (the comparisons are all
\* non-strict), so it is a preorder on labels.
C5_DominancePreorder ==
    dom.pc = "compared"
        => /\ \A i \in 1..3 : dom.dominates[<< i, i >>]
           /\ \A i, j, k \in 1..3 :
                 (dom.dominates[<< i, j >>] /\ dom.dominates[<< j, k >>])
                     => dom.dominates[<< i, k >>]

\* Three different samples have been compared, the first dominates the
\* second and the second dominates the third.
C5_Witness ==
    /\ dom.pc = "compared"
    /\ dom.labels[1] # dom.labels[2]
    /\ dom.labels[2] # dom.labels[3]
    /\ dom.labels[1] # dom.labels[3]
    /\ dom.dominates[<< 1, 2 >>]
    /\ dom.dominates[<< 2, 3 >>]

\* C6: the strategies are tried in the order TSP stitcher (City Loop
\* only), RAPTOR, beam search; a later one is run only when every earlier
\* one returned no plan, and the plan returned is that of the first
\* strategy in this order that produced one.
C6_StrategyOrder ==
    /\ \A i \in 1..Len(tried) :
          /\ tried[i].strategy = "tsp" => challenge = "city-loop"
          /\ \A j \in 1..(i - 1) :
                /\ StrategyRank(tried[j].strategy) < StrategyRank(tried[i].strategy)
                /\ ~tried[j].produced
    /\ (request.pc = "done" /\ request.plan # None)
          => tried # << >> /\ tried[Len(tried)].produced

\* C7: two runs of the RAPTOR router on the same timetable, routes, origin
\* set and configuration return the same leg sequence, whatever order the
\* set of routes to scan is iterated in.
C7_RaptorDeterministic ==
    (first_run # None /\ raptor.status = "done")
        => raptor.plan = first_run[1]

\* C8: every TripEdge handed to the planner has arrive > depart, whether it
\* was built from a segment row (with the midnight rollover), from
\* timetable rows, or returned by get_edges_for_window after a realtime
\* patch replaced its depart and arrive.
C8_EveryEdgeArrivesAfterDepart ==
    /\ \A i \in 1..Len(static_edges) :
          static_edges[i].arrive > static_edges[i].depart
    /\ \A i \in 1..Len(stop_edges) :
          stop_edges[i].arrive > stop_edges[i].depart

\* C10: whenever the boundary-sequence builder has produced a non-empty
\* sequence and an origin stop exists, the stored sequence is closed: its
\* first and its last element are both the origin stop.
C10_BoundarySequenceClosed ==
    (boundary_sequence # << >> /\ hakata_stops # << >>)
        => /\ boundary_sequence[1] = hakata_stops[1]
           /\ boundary_sequence[Len(boundary_sequence)] = hakata_stops[1]


\* C9: beam search run with require_unique=True never produces a state
\* whose path arrives at a non-origin stop that it has already visited: in
\* every state in the queue and every recorded result, each non-origin
\* stop has visit count at most 1.
C9_UniqueStopsNeverRevisited ==
    (beam.status # "idle" /\ beam.params.require_unique)
        => \A st \in {entry.state : entry \in beam.pq}
                      \cup {beam.results[i] : i \in 1..Len(beam.results)} :
              \A stop \in DOMAIN st.stop_visit_counts :
                  IsHakata(hakata_stops, stop) \/ st.stop_visit_counts[stop] <= 1

\* A unique-stop search has gone on from B, which it reached through A,
\* although the timetable offered a ride from B back to A that it could
\* have caught.
C9_Witness ==
    /\ beam.status # "idle"
    /\ beam.params.require_unique
    /\ \E entry \in beam.pq :
          LET path == entry.state.path
          IN  /\ Len(path) = 3
              /\ path[1].to_code = "A"
              /\ path[2].to_code = "B"
              /\ \E i \in 1..Len(stop_edges) :
                    /\ stop_edges[i].from_code = "B"
                    /\ stop_edges[i].to_code = "A"
                    /\ stop_edges[i].depart
                          >= path[2].arrive + beam.params.min_transfer_minutes


\* C11: a label's quadrant mask is the OR of one quadrant bit per visited
\* stop, so a label the router holds has quadrant_mask == 15 only if its
\* visited stops lie in all four geographic quadrants (NE, SE, SW, NW) round
\* the origin.
C11_MaskFifteenNeedsFourQuadrants ==
    LET geo(c) == << StationTable[c].y >= 0, StationTable[c].x >= 0 >>
        held == {raptor.best_labels[i] : i \in 1..Len(raptor.best_labels)}
                \cup UNION {{raptor.cur[c][i] : i \in 1..Len(raptor.cur[c])}
                            : c \in DOMAIN raptor.cur}
                \cup UNION {{raptor.next[c][i] : i \in 1..Len(raptor.next[c])}
                            : c \in DOMAIN raptor.next}
    IN  \A label \in held :
            label.quadrant_mask = ALL_QUADRANTS_MASK
                => Cardinality({geo(c) : c \in label.visited}) = 4


\* C12: in every plan the RAPTOR router returns, consecutive legs are at
\* least min_transfer_minutes apart: 6 minutes for Most Stops, 5 for the
\* other three challenges.
C12_TransferGapKept ==
    (raptor.status = "done" /\ raptor.plan # None)
        => \A i \in 1..(Len(raptor.plan[1].legs) - 1) :
              raptor.plan[1].legs[i + 1].depart - raptor.plan[1].legs[i].arrive
                  >= (IF challenge = "most-stops" THEN 6 ELSE 5)

C12_Witness ==
    /\ raptor.status = "done"
    /\ raptor.plan # None
    /\ Len(raptor.plan[1].legs) >= 3

\* C13: in every plan the RAPTOR router returns, no non-origin stop is a leg
\* endpoint (from-stop or to-stop, as the plan statistics count them) more
\* often than the visit limit of the challenge: 3 for Longest Duration, 4
\* for Longest Distance, 2 for Most Stops and City Loop.
C13_EndpointCountWithinLimit ==
    LET legs == raptor.plan[1].legs
        count(c) == Cardinality({i \in 1..Len(legs) : legs[i].from_code = c})
                    + Cardinality({i \in 1..Len(legs) : legs[i].to_code = c})
        limit == CASE challenge = "longest-duration" -> 3
                   [] challenge = "longest-distance" -> 4
                   [] OTHER -> 2
    IN  (raptor.status = "done" /\ raptor.plan # None)
            => \A c \in stations : ~IsHakata(hakata_stops, c) => count(c) <= limit

\* C14: when the computation of one challenge fails, the call still returns
\* the plans, with a null entry for that challenge only: the other three
\* challenges are computed and returned.
C14_FailureOfOneChallengeIsolated ==
    \A t \in Threads :
        calls[t].failed # {}
            => /\ calls[t].plans # None
               /\ \A ch \in DOMAIN calls[t].plans[1] :
                     (calls[t].plans[1][ch] = None) <=> (ch \in calls[t].failed)

\* C15: a refresh of _ensure_plans that fails with a load error or a
\* planning error leaves _cache, _cache_mtime, _latest_data_file and
\* _cache_generated_at of the service as they were.
C15_FailedRefreshKeepsCache ==
    [][\A t \in Threads :
          (calls[t].pc = "refresh"
           /\ calls'[t].outcome \in {"load_error", "plan_error"})
              => \E i \in {calls[t].service} :
                    /\ services'[i].cache = services[i].cache
                    /\ services'[i].cache_mtime = services[i].cache_mtime
                    /\ services'[i].latest_data_file
                          = services[i].latest_data_file
                    /\ services'[i].cache_generated_at
                          = services[i].cache_generated_at]_vars

\* A reload has failed for want of a timetable file and the one service
\* still holds the plans of the file that was there before.
C15_Witness ==
    /\ Len(services) = 1
    /\ \E t \in Threads : calls[t].outcome = "load_error"
    /\ data_dir.file = None
    /\ services[1].cache # None
    /\ services[1].latest_data_file = << "segments_a" >>

C17_RefreshesMutuallyExclusive ==
    Cardinality({t \in Threads : calls[t].pc = "refresh"}) <= 1

\* C18: the rest stops of a returned plan hold one suggestion for each pair
\* of consecutive legs whose waiting gap reaches the threshold, and the
\* suggestion text depends on the stop code only: two rest stops at the same
\* stop carry the same suggestion, however many rest stops precede them.
C18_RestStopsByGapAndStopCode ==
    (raptor.status = "done" /\ raptor.plan # None)
        => \E legs \in {raptor.plan[1].legs} :
           \E rest \in {generate_rest_stops(impl, legs, 1, << >>)} :
              /\ Len(rest) = Cardinality({i \in 1..(Len(legs) - 1) :
                                legs[i + 1].depart - legs[i].arrive
                                    >= REST_STOP_THRESHOLD})
              /\ \A i \in 1..Len(rest) :
                    /\ rest[i].minutes >= REST_STOP_THRESHOLD
                    /\ \A j \in 1..Len(rest) :
                          rest[i].at = rest[j].at
                              => rest[i].suggestion = rest[j].suggestion

\* C19: in the TSP stitcher, the point-to-point router call for a pair
\* (from_stop, to_stop) of different stops, seeded at from_stop only, returns
\* a journey whose last leg alights at to_stop whenever some trip of the
\* route timetables runs from from_stop to to_stop, leaving at or after the
\* start of the horizon plus the transfer minimum and arriving within 24
\* hours.
C19_PointToPointFindsDirectTrip ==
    (tried # << >> /\ tried[Len(tried)].strategy = "tsp")
        => \A from_stop \in stations : \A to_stop \in stations \ {from_stop} :
              (\E rid \in DOMAIN routes :
               \E k \in 1..Len(routes[rid].trips) :
               \E a \in 1..Len(routes[rid].stops) :
               \E b \in (a + 1)..Len(routes[rid].stops) :
                  /\ routes[rid].stops[a] = from_stop
                  /\ routes[rid].stops[b] = to_stop
                  /\ routes[rid].trips[k].departures[a]
                        >= START_TIME_MINUTES + 5
                  /\ routes[rid].trips[k].arrivals[b]
                        <= START_TIME_MINUTES + 24 * 60)
              => \E plan \in {run_raptor_challenge(<< from_stop >>,
                                                   P2PConfig(to_stop)).plan} :
                    /\ plan # None
                    /\ plan[1].legs # << >>
                    /\ plan[1].legs[Len(plan[1].legs)].to_code = to_stop

\* C20: the queue of the beam search never holds more entries than its
\* capacity, and a push into a full queue discards the worst entry (the one
\* of the lowest score, that is, of the greatest priority value) among the
\* queued entries and the new one: after an expansion, no entry that was
\* queued or pushed and is gone from the queue has a better score than an
\* entry that is still queued.
C20_QueueBoundedAndWorstEvicted ==
    [][(beam.status = "run" /\ beam'.status = "run")
          => /\ Cardinality(beam'.pq)
                   <= OrElse(beam.params.max_queue, MAX_QUEUE_SIZE)
             /\ \A lost \in BeamExpand([beam EXCEPT !.params.max_queue = None],
                                       QuadrantMap(impl), hakata_stops).pq
                              \ beam'.pq :
                   \A kept \in beam'.pq : lost.priority >= kept.priority]_vars

\* The labels the router holds: those of the buckets of the round being
\* scanned and of the next round, and the accepted candidates.
HeldLabels ==
    {raptor.best_labels[i] : i \in 1..Len(raptor.best_labels)}
    \cup UNION {{raptor.cur[c][i] : i \in 1..Len(raptor.cur[c])}
                : c \in DOMAIN raptor.cur}
    \cup UNION {{raptor.next[c][i] : i \in 1..Len(raptor.next[c])}
                : c \in DOMAIN raptor.next}

\* C21: no label holds a segment B->A ridden directly after a segment A->B,
\* also when A->B was the last hop of a leg of several hops: where one leg
\* follows another, the first stop the later leg reaches is not the stop the
\* earlier leg left on its last hop.
C21_NoImmediateReversal ==
    \A label \in HeldLabels :
        \A i \in 1..(Len(label.legs) - 1) :
            \E before \in {routes[label.legs[i].line_id].stops} :
            \E after \in {routes[label.legs[i + 1].line_id].stops} :
                after[(CHOOSE k \in 1..Len(after) :
                          after[k] = label.legs[i + 1].from_code) + 1]
                  # before[(CHOOSE k \in 1..Len(before) :
                               before[k] = label.legs[i].to_code) - 1]

\* C22: the visited set of every label the router holds contains every stop
\* that is the from_code or the to_code of one of its legs (and, for a label
\* without legs, the origin stop it was seeded at).
C22_VisitedCoversLegStops ==
    \A label \in HeldLabels :
        /\ label.legs = << >>
              => \E i \in 1..Len(hakata_stops) : hakata_stops[i] \in label.visited
        /\ \A i \in 1..Len(label.legs) :
              /\ label.legs[i].from_code \in label.visited
              /\ label.legs[i].to_code \in label.visited

\* C23: after every _insert_label call the bucket holds at most
\* MAX_LABELS_PER_STOP labels and is ordered by score, highest first; a call
\* that returns False leaves the bucket as it was.
C23_BucketBoundedSortedRejectionInert ==
    [][/\ Len(bucket'.labels) <= MAX_LABELS_PER_STOP
       /\ \A i \in 1..(Len(bucket'.labels) - 1) :
             bucket'.labels[i].score >= bucket'.labels[i + 1].score
       /\ ~bucket'.last[1].inserted => bucket'.labels = bucket.labels]_vars

\* A full bucket whose last _insert_label call returned False.
C23_Witness ==
    /\ Len(bucket.labels) = MAX_LABELS_PER_STOP
    /\ bucket.last # None
    /\ ~bucket.last[1].inserted

\* C24: when _insert_label has returned True, the label it was given is in
\* the bucket.
C24_InsertedLabelIsInBucket ==
    (bucket.last # None /\ bucket.last[1].inserted)
        => \E i \in 1..Len(bucket.labels) :
              bucket.labels[i] = bucket.last[1].label

\* C25: in every RouteTrip of the route timetables the times increase from
\* stop to stop: departures[i] < arrivals[i+1] and
\* arrivals[i+1] <= departures[i+1] at every stop index i.
C25_TripTimesIncreaseStopToStop ==
    \A rid \in DOMAIN routes :
        \A t \in 1..Len(routes[rid].trips) :
            \A i \in 1..(Len(routes[rid].stops) - 1) :
                /\ routes[rid].trips[t].departures[i]
                      < routes[rid].trips[t].arrivals[i + 1]
                /\ routes[rid].trips[t].arrivals[i + 1]
                      <= routes[rid].trips[t].departures[i + 1]

\* C26: a beam search called with hakata_max_visits = k holds and returns no
\* state that visits an origin stop more than k times, the start counting as
\* one visit, whether or not max_stop_visits is set.
C26_OriginVisitsWithinCap ==
    (beam.status # "idle" /\ beam.params.hakata_max_visits # None)
        => \A st \in {entry.state : entry \in beam.pq}
                      \cup {beam.results[i] : i \in 1..Len(beam.results)} :
              \A stop \in DOMAIN st.stop_visit_counts :
                  IsHakata(hakata_stops, stop)
                      => st.stop_visit_counts[stop]
                            <= beam.params.hakata_max_visits[1]

\* The stops a leg arrives at, hop by hop: those after from_code up to
\* to_code on the stop list of the leg's route.
LegArrivals(leg) ==
    {routes[leg.line_id].stops[k] :
        k \in (StopIndex(routes[leg.line_id].stops, leg.from_code) + 1)
              ..StopIndex(routes[leg.line_id].stops, leg.to_code)}

\* C30: in every label the router holds, stop_counts[s] is the number of
\* times s occurs in the journey's stop sequence: one for the origin stop the
\* label was seeded at, plus one for every segment that arrives at s (so the
\* origin's count after the first segment away from it is 1).
C30_StopCountsAreOccurrences ==
    \A label \in HeldLabels :
        \A s \in stations :
            Get0(label.stop_counts, s)
              = (IF IsHakata(hakata_stops, s) THEN 1 ELSE 0)
                + Cardinality({i \in 1..Len(label.legs) :
                                  s \in LegArrivals(label.legs[i])})

\* C29: an _assemble_city_loop_plan call leaves service.hakata_stops as it
\* found it, whether it returns a plan, returns None or is left by an
\* exception of the inner router call.
C29_AssembleLeavesOriginsUnchanged ==
    [][stitch.pc = "run" => hakata_stops' = hakata_stops]_vars

====
